---- MODULE Spec2Model ----
(***************************************************************************)
(* Model of the documentation site's executable parts: the homepage        *)
(* component HomepageFeatures and the Java samples of the study notes      *)
(* (Counter, BankAccount, SharedBuffer, NumberPrinter, encapsulated        *)
(* BankAccount and Student, validateAge, finallyExample, removeDuplicates, *)
(* findMax, Stack, performanceComparison, UserRepository, readFile and     *)
(* processFile, CreditCard and PayPal).  Every sample has its own          *)
(* variables and its own specification; a specification keeps the other    *)
(* samples' variables at their initial values.                             *)
(***************************************************************************)
EXTENDS Integers, Sequences, FiniteSets, TLC

VARIABLES
    \* ---- HomepageFeatures (index.js) ----
    featureList,   \* the module-level array FeatureList
    phase,         \* "idle" | "map" | "reconcile" | "error"
    idx,           \* number of entries the current loop has handled
    elems,         \* the <Feature key props/> elements FeatureList.map has built
    work,          \* cards rendered so far by the render in progress
    dom,           \* the cards of the committed row (<<>> when nothing is mounted)
    mounted,       \* whether the component is mounted
    lastRow,       \* the row of the latest completed render (history)
    renders,       \* number of completed renders
    \* ---- Counter and its ten threads (02-multithreading.md) ----
    count,         \* Counter.count
    cLock,         \* owner of sharedCounter's monitor (0: free)
    cpc,           \* each counter thread's position
    cj,            \* each counter thread's loop variable j
    creg,          \* the value a thread has loaded for count++
    cMain,         \* the main thread's position in the synchronization example
    ci,            \* the main thread's loop index
    cFinal,        \* what main printed as "Final counter value" (-1: nothing yet)
    \* ---- BankAccount and its two depositors (02-multithreading.md) ----
    tbBalance,     \* BankAccount.balance (a double)
    tbLock,        \* owner of the account's monitor (0: free)
    tbpc,          \* each depositor's position
    tbi,           \* each depositor's loop variable i
    tbAmt,         \* the amount each depositor passes to deposit()
    tbReg,         \* the balance a depositor has loaded for balance += amount
    tbMain,        \* the main thread's position in the bank account example
    tbFinal,       \* what main printed as "Final account balance" (NaN: nothing yet)
    tbOp,          \* the method each thread calls: "deposit" or "withdraw"
    \* ---- SharedBuffer, producer and consumer (02-multithreading.md) ----
    data,          \* SharedBuffer.data
    available,     \* SharedBuffer.available
    bLock,         \* owner of the buffer's monitor (0: free)
    bWait,         \* the monitor's wait set
    bRole,         \* each thread's lambda: "producer", "consumer" or "none"
    bCalls,        \* the bound of each thread's loop (5 in the sample)
    bpc,           \* each thread's position
    bi,            \* each thread's loop variable i
    bLog,          \* the calls that have returned, in order: [op, val] (history)
    bMain,         \* the main thread's position in the producer-consumer example
    bIntr,         \* the threads whose interrupt status is set
    bIntrN,        \* number of interrupt() calls made on the buffer's threads
    bWoke,         \* why each thread last left wait() in its current call (history)
    \* ---- NumberPrinter and its two threads (02-multithreading.md, exercise 1) ----
    number,        \* NumberPrinter.number
    isEvenTurn,    \* NumberPrinter.isEvenTurn
    npLock,        \* owner of the printer's monitor (0: free)
    npWait,        \* the monitor's wait set
    nppc,          \* each thread's position
    npk,           \* the calls each thread has made
    printed,       \* the lines printed, in order: [by, n] (history)
    \* ---- BankAccount of the encapsulation notes ----
    accountNumber, \* BankAccount.accountNumber
    accountHolder, \* BankAccount.accountHolder
    balance,       \* BankAccount.balance (a double)
    acLast,        \* the latest call: [op, amount, ret, before] (history)
    acOps,         \* number of calls made on the account
    \* ---- Student of the encapsulation notes ----
    stId,          \* Student.id
    stName,        \* Student.name
    stAge,         \* Student.age
    stGpa,         \* Student.gpa (a double)
    stLast,        \* the latest setter call: [op, arg, before] (history)
    stOps,         \* number of setter calls made on the student
    \* ---- validateAge (03-exception-handling.md) ----
    vaAge,         \* the argument of validateAge
    vaResult,      \* "pending", "returned" or the message of the exception thrown
    \* ---- finallyExample (03-exception-handling.md) ----
    feInput,       \* what System.in holds: a line, or EndOfInput
    fePc,          \* position in finallyExample
    feScanner,     \* "none", "open" or "closed"
    feFinally,     \* how many times the finally block has run
    fePending,     \* the exception in flight ("none" when there is none)
    feOut,         \* the lines printed
    \* ---- BankAccount of the InsufficientFundsException exercise ----
    xbBalance,     \* BankAccount.balance (a double)
    xbLast,        \* the latest withdraw: [amount, before, thrown] (history)
    xbOps,         \* number of calls made
    \* ---- removeDuplicates (01-collections.md) ----
    rdList,        \* the list passed to removeDuplicates
    rdOrig,        \* the contents of that list before the call (history)
    rdPc,          \* "start", "once" or "twice"
    rdOut,         \* the list the call returned
    rdOut2,        \* what removeDuplicates returned for rdOut
    \* ---- findMax (04-generics.md) ----
    fmArray,       \* the array passed to findMax (NullArray for null)
    fmOrig,        \* the array before the call (history)
    fmPc,          \* "start", "loop" or "done"
    fmI,           \* the loop variable i
    fmMax,         \* the local max
    fmResult,      \* [kind |-> "value", val |-> ...] or [kind |-> "NullPointerException"]
    \* ---- Stack<T> (04-generics.md, exercise 1) ----
    elements,      \* Stack.elements
    skLog,         \* the calls made, in order: [op, arg, ret] (history)
    \* ---- performanceComparison (05-lambda-expressions.md) ----
    numbers,       \* the list numbers
    pfPc,          \* "loop", "stream" or "done"
    pfI,           \* how many elements the running pass has taken
    sum1,          \* the traditional loop's sum
    sum2,          \* the stream pipeline's sum
    pfEqual,       \* what "Results equal?" printed ("none" before)
    \* ---- UserRepository and User (04-generics.md) ----
    users,         \* UserRepository.users: a function from the ids in use to users
    nextId,        \* UserRepository.nextId
    urId,          \* the field id of every User object
    urSaved,       \* the users passed to save() and not to delete() since (history)
    urEver,        \* the users ever passed to save() (history)
    urGen,         \* the ids save() took from nextId, in order (history)
    urLast,        \* the last call: [op, user, id, before, found] (history)
    urOps,         \* how many calls were made
    \* ---- readFile and processFile (03-exception-handling.md) ----
    rfMethod,      \* "readFile" or "processFile"
    rfFile,        \* the file: [exists, lines, failAt] (failAt = k: the k-th readLine() throws)
    rfPc,          \* "start", "loop", "close" or "done"
    rfReader,      \* the BufferedReader: "none", "open" or "closed"
    rfCalls,       \* how many readLine() calls were made
    rfThrown,      \* the exception the method left with ("none" if it returned or runs)
    \* ---- CreditCard and PayPal (05-abstraction.md) ----
    pmBalance,     \* the field balance of the CreditCard and of the PayPal object
    pmLast,        \* the last makePayment: [who, amount, before, ret] (history)
    pmOps          \* how many makePayment calls were made

featVars == <<featureList, phase, idx, elems, work, dom, mounted, lastRow, renders>>
counterVars == <<count, cLock, cpc, cj, creg, cMain, ci, cFinal>>

bankVars == <<tbBalance, tbLock, tbpc, tbi, tbAmt, tbReg, tbMain, tbFinal, tbOp>>

bufVars == <<data, available, bLock, bWait, bRole, bCalls, bpc, bi, bLog, bMain, bIntr, bIntrN, bWoke>>

npVars == <<number, isEvenTurn, npLock, npWait, nppc, npk, printed>>

acVars == <<accountNumber, accountHolder, balance, acLast, acOps>>

stVars == <<stId, stName, stAge, stGpa, stLast, stOps>>
vaVars == <<vaAge, vaResult>>
feVars == <<feInput, fePc, feScanner, feFinally, fePending, feOut>>
xbVars == <<xbBalance, xbLast, xbOps>>
rdVars == <<rdList, rdOrig, rdPc, rdOut, rdOut2>>
fmVars == <<fmArray, fmOrig, fmPc, fmI, fmMax, fmResult>>
skVars == <<elements, skLog>>
pfVars == <<numbers, pfPc, pfI, sum1, sum2, pfEqual>>
urVars == <<users, nextId, urId, urSaved, urEver, urGen, urLast, urOps>>
rfVars == <<rfMethod, rfFile, rfPc, rfReader, rfCalls, rfThrown>>
pmVars == <<pmBalance, pmLast, pmOps>>

\* The samples with threads or a render loop, and the single-threaded ones.
concVars == <<featVars, counterVars, bankVars, bufVars, npVars, acVars>>
seqVars == <<stVars, vaVars, feVars, xbVars, rdVars, fmVars, skVars, pfVars,
            urVars, rfVars, pmVars>>

vars == <<concVars, seqVars>>

(***************************************************************************)
(* Bounds                                                                  *)
(***************************************************************************)
MaxRenders == 8    \* renders of the homepage in one run
MaxLen == 3        \* longest feature list drawn as an input
MaxBufThreads == 4     \* threads that may use the SharedBuffer
MaxInterrupts == 2     \* interrupt() calls made on the threads of the SharedBuffer
MaxManyCalls == 2      \* calls each thread makes when many threads share the buffer
MaxPrints == 4         \* calls each NumberPrinter thread makes
MaxAccountOps == 3     \* calls made on the encapsulated BankAccount
MaxPerfLen == 3        \* longest list drawn for performanceComparison
PerfListSize == 6      \* length of the list 0, 1, 2, ... (the sample builds 1000000)
MaxStackOps == 4       \* calls made on a Stack
MaxStudentOps == 2     \* setter calls made on a Student
AgeMargin == 3         \* how far below 0 and above 150 validateAge is tried
MaxLineLen == 2        \* longest line drawn from LineChars for System.in
MaxArrayLen == 3       \* longest array drawn for findMax
MaxDedupLen == 4       \* longest list drawn for removeDuplicates
MaxExerciseOps == 4    \* withdraw calls made on the exercise's BankAccount
NCounterThreads == 2   \* counter threads (the sample starts 10)
IncrementCalls == 2    \* increment calls per counter thread (the sample makes 1000)

(***************************************************************************)
(* HomepageFeatures                                                        *)
(***************************************************************************)
\* A prop that is absent from a record destructures to undefined.
Undefined == "undefined"

FeatureListShort ==
    << [title |-> "Organized Study Notes",
        Svg |-> "undraw_docusaurus_mountain.svg",
        description |-> "Keep all your study notes structured"],
       [title |-> "Copyable Code & Diagrams",
        Svg |-> "undraw_docusaurus_tree.svg",
        description |-> "Include code snippets, diagrams, and links"] >>

FeatureList ==
    << [title |-> "Organized Study Notes",
        Svg |-> "undraw_docusaurus_mountain.svg",
        description |-> "Keep all your study notes structured"],
       [title |-> "Copyable Code & Diagrams",
        Svg |-> "undraw_docusaurus_tree.svg",
        description |-> "Include code snippets, diagrams, and links"],
       [title |-> "Markdown Powered",
        Svg |-> "undraw_docusaurus_react.svg",
        description |-> "Write your notes in Markdown"] >>

\* The records a feature list given as an input is made of: every prop may be absent.
PropsUniverse ==
    [title : {Undefined, "Organized Study Notes", "Markdown Powered"},
     Svg : {Undefined, "undraw_docusaurus_tree.svg"},
     description : {Undefined, "Write your notes in Markdown"}]

RECURSIVE SeqsUpTo(_, _)
SeqsUpTo(S, n) ==
    IF n = 0 THEN {<<>>}
    ELSE LET shorter == SeqsUpTo(S, n - 1)
         IN shorter \cup {Append(s, x) : s \in {q \in shorter : Len(q) = n - 1}, x \in S}

\* What React shows for a child expression {x}: nothing for undefined.
Child(x) == IF x = Undefined THEN "" ELSE x

RenderError == [error |-> "Element type is invalid"]

\* A Feature that never fails: it renders a card whatever its props are.
FeatureNoThrow(props) ==
    [svg |-> props.Svg, heading |-> Child(props.title), p |-> Child(props.description)]

\* Feature({Svg, title, description}): the card, or the error React raises for
\* an element whose type is undefined.
Feature(props) ==
    IF props.Svg = Undefined
    THEN RenderError
    ELSE [svg |-> props.Svg, heading |-> Child(props.title), p |-> Child(props.description)]

InitFeatures(list) ==
    /\ featureList = list
    /\ phase = "idle"
    /\ idx = 0
    /\ elems = <<>>
    /\ work = <<>>
    /\ dom = <<>>
    /\ mounted = FALSE
    /\ lastRow = <<>>
    /\ renders = 0

\* The host framework calls HomepageFeatures() (mount or re-render).
RenderStart ==
    /\ phase = "idle"
    /\ renders < MaxRenders
    /\ phase' = "map"
    /\ idx' = 0
    /\ elems' = <<>>
    /\ work' = <<>>
    /\ UNCHANGED <<featureList, dom, mounted, lastRow, renders>>

\* A buggy map callback that takes the record off the array it walks.
MapStepShifting ==
    /\ phase = "map"
    /\ idx < Len(featureList)
    /\ elems' = Append(elems, [key |-> idx, props |-> featureList[idx + 1]])
    /\ featureList' = Tail(featureList)
    /\ UNCHANGED <<idx, phase, work, dom, mounted, lastRow, renders>>

\* A buggy map that builds the row back to front.
MapStepReversed ==
    /\ phase = "map"
    /\ idx < Len(featureList)
    /\ elems' = <<[key |-> idx, props |-> featureList[idx + 1]]>> \o elems
    /\ idx' = idx + 1
    /\ UNCHANGED <<featureList, phase, work, dom, mounted, lastRow, renders>>

\* One call of the callback of FeatureList.map((props, idx) => <Feature key={idx} {...props} />).
MapStep ==
    /\ phase = "map"
    /\ idx < Len(featureList)
    /\ elems' = Append(elems, [key |-> idx, props |-> featureList[idx + 1]])
    /\ idx' = idx + 1
    /\ UNCHANGED <<featureList, phase, work, dom, mounted, lastRow, renders>>

\* map returns; React goes on to render the children of the row.
MapDone ==
    /\ phase = "map"
    /\ idx = Len(featureList)
    /\ phase' = "reconcile"
    /\ idx' = 0
    /\ UNCHANGED <<featureList, elems, work, dom, mounted, lastRow, renders>>

\* React renders the next <Feature/> element; a throw unmounts the whole tree.
FeatureStep ==
    /\ phase = "reconcile"
    /\ idx < Len(elems)
    /\ LET card == Feature(elems[idx + 1].props)
       IN IF card = RenderError
          THEN /\ phase' = "error"
               /\ dom' = <<>>
               /\ mounted' = FALSE
               /\ UNCHANGED <<work, idx>>
          ELSE /\ work' = Append(work, card)
               /\ idx' = idx + 1
               /\ UNCHANGED <<phase, dom, mounted>>
    /\ UNCHANGED <<featureList, elems, lastRow, renders>>

\* Every child rendered: React commits the row.
Commit ==
    /\ phase = "reconcile"
    /\ idx = Len(elems)
    /\ dom' = work
    /\ lastRow' = work
    /\ mounted' = TRUE
    /\ phase' = "idle"
    /\ renders' = renders + 1
    /\ UNCHANGED <<featureList, idx, elems, work>>

\* The host framework unmounts the component.
Unmount ==
    /\ phase = "idle"
    /\ mounted
    /\ dom' = <<>>
    /\ mounted' = FALSE
    /\ UNCHANGED <<featureList, phase, idx, elems, work, lastRow, renders>>

\* A step of the homepage leaves the Java samples alone.
NextFeatures ==
    \/ RenderStart /\ UNCHANGED <<counterVars, bankVars, bufVars, npVars, acVars, seqVars>>
    \/ MapStep /\ UNCHANGED <<counterVars, bankVars, bufVars, npVars, acVars, seqVars>>
    \/ MapDone /\ UNCHANGED <<counterVars, bankVars, bufVars, npVars, acVars, seqVars>>
    \/ FeatureStep /\ UNCHANGED <<counterVars, bankVars, bufVars, npVars, acVars, seqVars>>
    \/ Commit /\ UNCHANGED <<counterVars, bankVars, bufVars, npVars, acVars, seqVars>>
    \/ Unmount /\ UNCHANGED <<counterVars, bankVars, bufVars, npVars, acVars, seqVars>>

(***************************************************************************)
(* Java arithmetic                                                         *)
(***************************************************************************)
\* x++ on an int: the result wraps to 32 bits, two's complement.
IntInc(x) == IF x = 2147483647 THEN -2147483647 - 1 ELSE x + 1

\* A double: a number (the model keeps the integers, which double arithmetic
\* handles exactly below 2^53), NaN or an infinity.
Num(n) == [k |-> "num", v |-> n]
NaN == [k |-> "nan", v |-> 0]
PosInf == [k |-> "inf", v |-> 1]
NegInf == [k |-> "inf", v |-> -1]

\* a < b on doubles: false when either is NaN.
DLt(a, b) ==
    /\ a # NaN
    /\ b # NaN
    /\ a # b
    /\ a # PosInf
    /\ b # NegInf
    /\ (a.k = "num" /\ b.k = "num") => a.v < b.v

\* a <= b, a > b, a >= b on doubles.
DLe(a, b) == a # NaN /\ b # NaN /\ (a = b \/ DLt(a, b))
DGt(a, b) == DLt(b, a)
DGe(a, b) == DLe(b, a)

\* a + b and a - b on doubles.
DNeg(a) == IF a.k = "nan" THEN NaN ELSE [k |-> a.k, v |-> 0 - a.v]
DAdd(a, b) ==
    IF a = NaN \/ b = NaN THEN NaN
    ELSE IF a.k = "inf" /\ b.k = "inf" THEN (IF a = b THEN a ELSE NaN)
    ELSE IF a.k = "inf" THEN a
    ELSE IF b.k = "inf" THEN b
    ELSE Num(a.v + b.v)
DSub(a, b) == DAdd(a, DNeg(b))

(***************************************************************************)
(* Counter: the synchronization example                                    *)
(***************************************************************************)
CounterThreads == 1..NCounterThreads

InitCounter ==
    /\ count = 0
    /\ cLock = 0
    /\ cpc = [t \in CounterThreads |-> "new"]
    /\ cj = [t \in CounterThreads |-> 0]
    /\ creg = [t \in CounterThreads |-> 0]
    /\ cMain = "start"
    /\ ci = 0
    /\ cFinal = -1

\* main: counterThreads[i] = new Thread(...); counterThreads[i].start(); i++
CounterStart ==
    /\ cMain = "start"
    /\ IF ci < NCounterThreads
       THEN /\ cpc' = [cpc EXCEPT ![ci + 1] = "loop"]
            /\ ci' = ci + 1
            /\ UNCHANGED cMain
       ELSE /\ cMain' = "join"
            /\ ci' = 0
            /\ UNCHANGED cpc
    /\ UNCHANGED <<count, cLock, cj, creg, cFinal>>

\* The thread's for (int j = 0; j < 1000; j++): the test of j.
CounterLoop(t) ==
    /\ cpc[t] = "loop"
    /\ cpc' = [cpc EXCEPT ![t] = IF cj[t] < IncrementCalls THEN "call" ELSE "terminated"]
    /\ UNCHANGED <<count, cLock, cj, creg, cMain, ci, cFinal>>

\* increment() without the synchronized keyword: the body runs without the monitor.
IncrementEnterUnsync(t) ==
    /\ cpc[t] = "call"
    /\ cpc' = [cpc EXCEPT ![t] = "load"]
    /\ UNCHANGED <<count, cLock, cj, creg, cMain, ci, cFinal>>

\* Entry of the synchronized method increment(): take the Counter's monitor.
IncrementEnter(t) ==
    /\ cpc[t] = "call"
    /\ cLock = 0
    /\ cLock' = t
    /\ cpc' = [cpc EXCEPT ![t] = "load"]
    /\ UNCHANGED <<count, cj, creg, cMain, ci, cFinal>>

\* incrementWithBlock(): entry of synchronized(this): the same monitor.
IncrementWithBlockEnter(t) ==
    /\ cpc[t] = "call"
    /\ cLock = 0
    /\ cLock' = t
    /\ cpc' = [cpc EXCEPT ![t] = "load"]
    /\ UNCHANGED <<count, cj, creg, cMain, ci, cFinal>>

\* count++ reads the field ...
CountLoad(t) ==
    /\ cpc[t] = "load"
    /\ creg' = [creg EXCEPT ![t] = count]
    /\ cpc' = [cpc EXCEPT ![t] = "store"]
    /\ UNCHANGED <<count, cLock, cj, cMain, ci, cFinal>>

\* ... and writes it back incremented.
CountStore(t) ==
    /\ cpc[t] = "store"
    /\ count' = IntInc(creg[t])
    /\ cpc' = [cpc EXCEPT ![t] = "exit"]
    /\ UNCHANGED <<cLock, cj, creg, cMain, ci, cFinal>>

\* The method (or block) is left: the monitor is released; then j++.
IncrementExit(t) ==
    /\ cpc[t] = "exit"
    /\ cLock' = IF cLock = t THEN 0 ELSE cLock
    /\ cj' = [cj EXCEPT ![t] = cj[t] + 1]
    /\ cpc' = [cpc EXCEPT ![t] = "loop"]
    /\ UNCHANGED <<count, creg, cMain, ci, cFinal>>

\* main: for (Thread t : counterThreads) t.join();
CounterJoin ==
    /\ cMain = "join"
    /\ IF ci < NCounterThreads
       THEN /\ cpc[ci + 1] = "terminated"
            /\ ci' = ci + 1
            /\ UNCHANGED cMain
       ELSE /\ cMain' = "print"
            /\ UNCHANGED ci
    /\ UNCHANGED <<count, cLock, cpc, cj, creg, cFinal>>

\* main: println("Final counter value: " + sharedCounter.getCount())
CounterPrint ==
    /\ cMain = "print"
    /\ cFinal' = count
    /\ cMain' = "done"
    /\ UNCHANGED <<count, cLock, cpc, cj, creg, ci>>

NextCounter ==
    \/ CounterStart /\ UNCHANGED <<featVars, bankVars, bufVars, npVars, acVars, seqVars>>
    \/ \E t \in CounterThreads : CounterLoop(t) /\ UNCHANGED <<featVars, bankVars, bufVars, npVars, acVars, seqVars>>
    \/ \E t \in CounterThreads : IncrementEnter(t) /\ UNCHANGED <<featVars, bankVars, bufVars, npVars, acVars, seqVars>>
    \/ \E t \in CounterThreads : IncrementWithBlockEnter(t) /\ UNCHANGED <<featVars, bankVars, bufVars, npVars, acVars, seqVars>>
    \/ \E t \in CounterThreads : CountLoad(t) /\ UNCHANGED <<featVars, bankVars, bufVars, npVars, acVars, seqVars>>
    \/ \E t \in CounterThreads : CountStore(t) /\ UNCHANGED <<featVars, bankVars, bufVars, npVars, acVars, seqVars>>
    \/ \E t \in CounterThreads : IncrementExit(t) /\ UNCHANGED <<featVars, bankVars, bufVars, npVars, acVars, seqVars>>
    \/ CounterJoin /\ UNCHANGED <<featVars, bankVars, bufVars, npVars, acVars, seqVars>>
    \/ CounterPrint /\ UNCHANGED <<featVars, bankVars, bufVars, npVars, acVars, seqVars>>

(***************************************************************************)
(* BankAccount (thread-safe example) and the two depositors                *)
(***************************************************************************)
Depositors == {1, 2}
DepositCalls == 5
InitialBalance == 1000
\* What Depositor-1 and Depositor-2 deposit in the sample.
SampleAmounts == <<Num(100), Num(150)>>
\* Amounts deposit() is tried with.
DepositAmounts == {Num(100), Num(150), Num(0), Num(-50), NaN}
\* Amounts and initial balances the account is tried with when its threads
\* deposit and withdraw.
BankOpAmounts == {Num(100), Num(150), Num(-50), NaN, PosInf}
BankInitialBalances == {Num(0), Num(100)}

\* new BankAccount(initialBalance) and two threads, each with the method it
\* calls and the amount it passes.
InitBankOps(initialBalance, ops, amounts) ==
    /\ tbBalance = initialBalance
    /\ tbLock = 0
    /\ tbpc = [t \in Depositors |-> "new"]
    /\ tbi = [t \in Depositors |-> 0]
    /\ tbAmt = amounts
    /\ tbReg = [t \in Depositors |-> Num(0)]
    /\ tbMain = "start1"
    /\ tbFinal = NaN
    /\ tbOp = ops

\* The sample: new BankAccount(1000) and two depositors.
InitBank(amounts) == InitBankOps(Num(InitialBalance), <<"deposit", "deposit">>, amounts)

\* main: depositor1.start(); depositor2.start();
BankStart ==
    /\ tbMain \in {"start1", "start2"}
    /\ tbpc' = [tbpc EXCEPT ![IF tbMain = "start1" THEN 1 ELSE 2] = "loop"]
    /\ tbMain' = IF tbMain = "start1" THEN "start2" ELSE "join1"
    /\ UNCHANGED <<tbBalance, tbLock, tbi, tbAmt, tbReg, tbFinal>>
    /\ UNCHANGED tbOp

\* The depositor's for (int i = 0; i < 5; i++): the test of i.
DepositorLoop(t) ==
    /\ tbpc[t] = "loop"
    /\ tbpc' = [tbpc EXCEPT ![t] = IF tbi[t] < DepositCalls THEN "call" ELSE "terminated"]
    /\ UNCHANGED <<tbBalance, tbLock, tbi, tbAmt, tbReg, tbMain, tbFinal>>
    /\ UNCHANGED tbOp

\* deposit() without the synchronized keyword.
DepositEnterUnsync(t) ==
    /\ tbpc[t] = "call"
    /\ tbpc' = [tbpc EXCEPT ![t] = "check"]
    /\ UNCHANGED <<tbBalance, tbLock, tbi, tbAmt, tbReg, tbMain, tbFinal>>
    /\ UNCHANGED tbOp

\* Entry of the synchronized method deposit() or withdraw(): take the account's
\* monitor.
DepositEnter(t) ==
    /\ tbpc[t] = "call"
    /\ tbLock = 0
    /\ tbLock' = t
    /\ tbpc' = [tbpc EXCEPT ![t] = "check"]
    /\ UNCHANGED <<tbBalance, tbi, tbAmt, tbReg, tbMain, tbFinal>>
    /\ UNCHANGED tbOp

\* if (amount > 0)
DepositCheck(t) ==
    /\ tbpc[t] = "check"
    /\ tbOp[t] = "deposit"
    /\ tbpc' = [tbpc EXCEPT ![t] = IF DGt(tbAmt[t], Num(0)) THEN "load" ELSE "exit"]
    /\ UNCHANGED <<tbBalance, tbLock, tbi, tbAmt, tbReg, tbMain, tbFinal>>
    /\ UNCHANGED tbOp

\* balance += amount (balance -= amount in withdraw) reads the field ...
DepositLoad(t) ==
    /\ tbpc[t] = "load"
    /\ tbReg' = [tbReg EXCEPT ![t] = tbBalance]
    /\ tbpc' = [tbpc EXCEPT ![t] = "store"]
    /\ UNCHANGED <<tbBalance, tbLock, tbi, tbAmt, tbMain, tbFinal>>
    /\ UNCHANGED tbOp

\* ... and writes the sum back (then prints the new balance).
DepositStore(t) ==
    /\ tbpc[t] = "store"
    /\ tbOp[t] = "deposit"
    /\ tbBalance' = DAdd(tbReg[t], tbAmt[t])
    /\ tbpc' = [tbpc EXCEPT ![t] = "exit"]
    /\ UNCHANGED <<tbLock, tbi, tbAmt, tbReg, tbMain, tbFinal>>
    /\ UNCHANGED tbOp

\* deposit() or withdraw() returns: the monitor is released.
DepositExit(t) ==
    /\ tbpc[t] = "exit"
    /\ tbLock' = IF tbLock = t THEN 0 ELSE tbLock
    /\ tbpc' = [tbpc EXCEPT ![t] = "sleep"]
    /\ UNCHANGED <<tbBalance, tbi, tbAmt, tbReg, tbMain, tbFinal>>
    /\ UNCHANGED tbOp

\* Thread.sleep(...) returns; then i++.
DepositorSleep(t) ==
    /\ tbpc[t] = "sleep"
    /\ tbi' = [tbi EXCEPT ![t] = tbi[t] + 1]
    /\ tbpc' = [tbpc EXCEPT ![t] = "loop"]
    /\ UNCHANGED <<tbBalance, tbLock, tbAmt, tbReg, tbMain, tbFinal>>
    /\ UNCHANGED tbOp

\* main: depositor1.join(); depositor2.join();
BankJoin ==
    /\ tbMain \in {"join1", "join2"}
    /\ tbpc[IF tbMain = "join1" THEN 1 ELSE 2] = "terminated"
    /\ tbMain' = IF tbMain = "join1" THEN "join2" ELSE "print"
    /\ UNCHANGED <<tbBalance, tbLock, tbpc, tbi, tbAmt, tbReg, tbFinal>>
    /\ UNCHANGED tbOp

\* main: println("Final account balance: " + account.getBalance()); getBalance()
\* is synchronized and holds the monitor for the read.
BankPrint ==
    /\ tbMain = "print"
    /\ tbLock = 0
    /\ tbFinal' = tbBalance
    /\ tbMain' = "done"
    /\ UNCHANGED <<tbBalance, tbLock, tbpc, tbi, tbAmt, tbReg>>
    /\ UNCHANGED tbOp

\* withdraw(): if (amount > 0 && amount <= balance)
WithdrawCheck(t) ==
    /\ tbpc[t] = "check"
    /\ tbOp[t] = "withdraw"
    /\ tbpc' = [tbpc EXCEPT ![t] = IF DGt(tbAmt[t], Num(0)) /\ DLe(tbAmt[t], tbBalance)
                                   THEN "load" ELSE "exit"]
    /\ UNCHANGED <<tbBalance, tbLock, tbi, tbAmt, tbReg, tbMain, tbFinal, tbOp>>

\* withdraw(): balance -= amount writes the difference back (then prints it).
WithdrawStore(t) ==
    /\ tbpc[t] = "store"
    /\ tbOp[t] = "withdraw"
    /\ tbBalance' = DSub(tbReg[t], tbAmt[t])
    /\ tbpc' = [tbpc EXCEPT ![t] = "exit"]
    /\ UNCHANGED <<tbLock, tbi, tbAmt, tbReg, tbMain, tbFinal, tbOp>>

NextBank ==
    \/ BankStart /\ UNCHANGED <<featVars, counterVars, bufVars, npVars, acVars, seqVars>>
    \/ \E t \in Depositors : DepositorLoop(t) /\ UNCHANGED <<featVars, counterVars, bufVars, npVars, acVars, seqVars>>
    \/ \E t \in Depositors : DepositEnter(t) /\ UNCHANGED <<featVars, counterVars, bufVars, npVars, acVars, seqVars>>
    \/ \E t \in Depositors : DepositCheck(t) /\ UNCHANGED <<featVars, counterVars, bufVars, npVars, acVars, seqVars>>
    \/ \E t \in Depositors : DepositLoad(t) /\ UNCHANGED <<featVars, counterVars, bufVars, npVars, acVars, seqVars>>
    \/ \E t \in Depositors : DepositStore(t) /\ UNCHANGED <<featVars, counterVars, bufVars, npVars, acVars, seqVars>>
    \/ \E t \in Depositors : DepositExit(t) /\ UNCHANGED <<featVars, counterVars, bufVars, npVars, acVars, seqVars>>
    \/ \E t \in Depositors : DepositorSleep(t) /\ UNCHANGED <<featVars, counterVars, bufVars, npVars, acVars, seqVars>>
    \/ BankJoin /\ UNCHANGED <<featVars, counterVars, bufVars, npVars, acVars, seqVars>>
    \/ BankPrint /\ UNCHANGED <<featVars, counterVars, bufVars, npVars, acVars, seqVars>>

\* Two threads that call deposit() or withdraw().
NextBankOps ==
    \/ NextBank
    \/ \E t \in Depositors : WithdrawCheck(t) /\ UNCHANGED <<featVars, counterVars, bufVars, npVars, acVars, seqVars>>
    \/ \E t \in Depositors : WithdrawStore(t) /\ UNCHANGED <<featVars, counterVars, bufVars, npVars, acVars, seqVars>>

(***************************************************************************)
(* SharedBuffer: the producer-consumer example                             *)
(***************************************************************************)
BufThreads == 1..MaxBufThreads
BufferCalls == 5
\* The sample: thread 1 runs the producer's lambda, thread 2 the consumer's.
SampleRoles == [t \in BufThreads |-> IF t = 1 THEN "producer"
                                     ELSE IF t = 2 THEN "consumer" ELSE "none"]

\* n producers and n consumers; every thread makes the same number of calls, so
\* that the puts and the gets are equal in number.
ManyRoles(n) == [t \in BufThreads |-> IF t <= n THEN "producer"
                                      ELSE IF t <= 2 * n THEN "consumer" ELSE "none"]

InitBuffer(roles, calls) ==
    /\ data = 0
    /\ available = FALSE
    /\ bLock = 0
    /\ bWait = {}
    /\ bRole = roles
    /\ bCalls = calls
    /\ bpc = [t \in BufThreads |-> "new"]
    /\ bi = [t \in BufThreads |-> 1]
    /\ bLog = <<>>
    /\ bMain = "start"
    /\ bIntr = {}
    /\ bIntrN = 0
    /\ bWoke = [t \in BufThreads |-> "none"]

Started == {t \in BufThreads : bRole[t] # "none" /\ bpc[t] # "new"}
NotStarted == {t \in BufThreads : bRole[t] # "none" /\ bpc[t] = "new"}
Min(S) == CHOOSE x \in S : \A y \in S : x <= y

\* main: producer.start(); consumer.start();
BufferStart ==
    /\ bMain = "start"
    /\ IF NotStarted # {}
       THEN /\ bpc' = [bpc EXCEPT ![Min(NotStarted)] = "loop"]
            /\ UNCHANGED bMain
       ELSE /\ bMain' = "join"
            /\ UNCHANGED bpc
    /\ UNCHANGED <<data, available, bLock, bWait, bRole, bCalls, bi, bLog>>
    /\ UNCHANGED <<bIntr, bIntrN, bWoke>>

\* for (int i = 1; i <= 5; i++): the test of i.
BufferLoop(t) ==
    /\ bpc[t] = "loop"
    /\ bpc' = [bpc EXCEPT ![t] = IF bi[t] <= bCalls THEN "call" ELSE "terminated"]
    /\ UNCHANGED <<data, available, bLock, bWait, bRole, bCalls, bi, bLog, bMain>>
    /\ UNCHANGED <<bIntr, bIntrN, bWoke>>

\* Entry of the synchronized method put() or get(): take the buffer's monitor.
BufferEnter(t) ==
    /\ bpc[t] = "call"
    /\ bLock = 0
    /\ bLock' = t
    /\ bpc' = [bpc EXCEPT ![t] = "check"]
    /\ UNCHANGED <<data, available, bWait, bRole, bCalls, bi, bLog, bMain>>
    /\ UNCHANGED <<bIntr, bIntrN, bWoke>>

\* put() that does not wait for the consumer.
PutCheckNoWait(t) ==
    /\ bRole[t] = "producer"
    /\ bpc[t] = "check"
    /\ bpc' = [bpc EXCEPT ![t] = "act"]
    /\ UNCHANGED <<data, available, bLock, bWait, bRole, bCalls, bi, bLog, bMain>>
    /\ UNCHANGED <<bIntr, bIntrN, bWoke>>

\* put(): while (available) wait(); wait() releases the monitor and enters the
\* wait set.  With the thread's interrupt status set, wait() throws
\* InterruptedException at once and clears the status; the catch block prints
\* the stack trace and the loop tests available again.
PutCheck(t) ==
    /\ bRole[t] = "producer"
    /\ bpc[t] = "check"
    /\ IF available
       THEN IF t \in bIntr
            THEN /\ bIntr' = bIntr \ {t}
                 /\ bWoke' = [bWoke EXCEPT ![t] = "interrupt"]
                 /\ UNCHANGED <<bpc, bWait, bLock>>
            ELSE /\ bpc' = [bpc EXCEPT ![t] = "waiting"]
                 /\ bWait' = bWait \cup {t}
                 /\ bLock' = 0
                 /\ UNCHANGED <<bIntr, bWoke>>
       ELSE /\ bpc' = [bpc EXCEPT ![t] = "act"]
            /\ UNCHANGED <<bWait, bLock, bIntr, bWoke>>
    /\ UNCHANGED <<data, available, bRole, bCalls, bi, bLog, bMain, bIntrN>>

\* get() that does not wait for the producer.
GetCheckNoWait(t) ==
    /\ bRole[t] = "consumer"
    /\ bpc[t] = "check"
    /\ bpc' = [bpc EXCEPT ![t] = "act"]
    /\ UNCHANGED <<data, available, bLock, bWait, bRole, bCalls, bi, bLog, bMain>>
    /\ UNCHANGED <<bIntr, bIntrN, bWoke>>

\* get(): while (!available) wait();
GetCheck(t) ==
    /\ bRole[t] = "consumer"
    /\ bpc[t] = "check"
    /\ IF ~available
       THEN IF t \in bIntr
            THEN /\ bIntr' = bIntr \ {t}
                 /\ bWoke' = [bWoke EXCEPT ![t] = "interrupt"]
                 /\ UNCHANGED <<bpc, bWait, bLock>>
            ELSE /\ bpc' = [bpc EXCEPT ![t] = "waiting"]
                 /\ bWait' = bWait \cup {t}
                 /\ bLock' = 0
                 /\ UNCHANGED <<bIntr, bWoke>>
       ELSE /\ bpc' = [bpc EXCEPT ![t] = "act"]
            /\ UNCHANGED <<bWait, bLock, bIntr, bWoke>>
    /\ UNCHANGED <<data, available, bRole, bCalls, bi, bLog, bMain, bIntrN>>

\* A waiting thread may wake up without a notify (a spurious wake-up).
BufferSpuriousWake(t) ==
    /\ bpc[t] = "waiting"
    /\ t \in bWait
    /\ bWait' = bWait \ {t}
    /\ bpc' = [bpc EXCEPT ![t] = "woken"]
    /\ UNCHANGED <<data, available, bLock, bRole, bCalls, bi, bLog, bMain>>
    /\ bWoke' = [bWoke EXCEPT ![t] = "spurious"]
    /\ UNCHANGED <<bIntr, bIntrN>>

\* wait() in an if statement instead of a while loop: the woken thread goes on
\* without testing the guard again.
BufferReacquireNoRecheck(t) ==
    /\ bpc[t] = "woken"
    /\ bLock = 0
    /\ bLock' = t
    /\ bpc' = [bpc EXCEPT ![t] = "act"]
    /\ UNCHANGED <<data, available, bWait, bRole, bCalls, bi, bLog, bMain>>
    /\ UNCHANGED <<bIntr, bIntrN, bWoke>>

\* wait() returns once the woken thread has the monitor again; the loop tests again.
BufferReacquire(t) ==
    /\ bpc[t] = "woken"
    /\ bLock = 0
    /\ bLock' = t
    /\ bpc' = [bpc EXCEPT ![t] = "check"]
    /\ UNCHANGED <<data, available, bWait, bRole, bCalls, bi, bLog, bMain>>
    /\ UNCHANGED <<bIntr, bIntrN, bWoke>>

\* put(): data = value; available = true; (value is the producer's i)
PutWrite(t) ==
    /\ bRole[t] = "producer"
    /\ bpc[t] = "act"
    /\ data' = bi[t]
    /\ available' = TRUE
    /\ bpc' = [bpc EXCEPT ![t] = "notify"]
    /\ UNCHANGED <<bLock, bWait, bRole, bCalls, bi, bLog, bMain>>
    /\ UNCHANGED <<bIntr, bIntrN, bWoke>>

\* get(): available = false; (and prints data)
GetTake(t) ==
    /\ bRole[t] = "consumer"
    /\ bpc[t] = "act"
    /\ available' = FALSE
    /\ bpc' = [bpc EXCEPT ![t] = "notify"]
    /\ UNCHANGED <<data, bLock, bWait, bRole, bCalls, bi, bLog, bMain>>
    /\ UNCHANGED <<bIntr, bIntrN, bWoke>>

\* notify() that wakes no thread.
BufferNotifyNobody(t) ==
    /\ bpc[t] = "notify"
    /\ bpc' = [bpc EXCEPT ![t] = "return"]
    /\ UNCHANGED <<data, available, bLock, bWait, bRole, bCalls, bi, bLog, bMain>>
    /\ UNCHANGED <<bIntr, bIntrN, bWoke>>

\* notify(): one thread of the wait set, any of them, is woken; none if it is empty.
BufferNotify(t) ==
    /\ bpc[t] = "notify"
    /\ IF bWait = {}
       THEN UNCHANGED <<bWait, bWoke>> /\ bpc' = [bpc EXCEPT ![t] = "return"]
       ELSE \E u \in bWait :
               /\ bWait' = bWait \ {u}
               /\ bpc' = [bpc EXCEPT ![t] = "return", ![u] = "woken"]
               /\ bWoke' = [bWoke EXCEPT ![u] = "notify"]
    /\ UNCHANGED <<data, available, bLock, bRole, bCalls, bi, bLog, bMain>>
    /\ UNCHANGED <<bIntr, bIntrN>>

\* put() returns, get() returns data: the monitor is released.
BufferReturn(t) ==
    /\ bpc[t] = "return"
    /\ bLog' = Append(bLog, IF bRole[t] = "producer"
                             THEN [op |-> "put", val |-> bi[t]]
                             ELSE [op |-> "get", val |-> data])
    /\ bLock' = IF bLock = t THEN 0 ELSE bLock
    /\ bpc' = [bpc EXCEPT ![t] = "sleep"]
    /\ UNCHANGED <<data, available, bWait, bRole, bCalls, bi, bMain>>
    /\ bWoke' = [bWoke EXCEPT ![t] = "none"]
    /\ UNCHANGED <<bIntr, bIntrN>>

\* Thread.sleep(...) returns, or throws InterruptedException (caught) when the
\* interrupt status is set, which clears it; then i++.
BufferSleep(t) ==
    /\ bpc[t] = "sleep"
    /\ bi' = [bi EXCEPT ![t] = bi[t] + 1]
    /\ bpc' = [bpc EXCEPT ![t] = "loop"]
    /\ bIntr' = bIntr \ {t}
    /\ UNCHANGED <<data, available, bLock, bWait, bRole, bCalls, bLog, bMain, bIntrN, bWoke>>

\* Another thread calls interrupt() on thread t.  A thread in wait() leaves the
\* wait set: once it has the monitor again wait() throws InterruptedException,
\* the catch block prints the stack trace and the loop tests the guard again.
\* Otherwise the interrupt status is set for the next wait() or sleep().
BufferInterrupt(t) ==
    /\ bIntrN < MaxInterrupts
    /\ bpc[t] \notin {"new", "terminated"}
    /\ bRole[t] # "none"
    /\ bIntrN' = bIntrN + 1
    /\ IF bpc[t] = "waiting"
       THEN /\ bWait' = bWait \ {t}
            /\ bpc' = [bpc EXCEPT ![t] = "woken"]
            /\ bWoke' = [bWoke EXCEPT ![t] = "interrupt"]
            /\ UNCHANGED bIntr
       ELSE /\ bIntr' = bIntr \cup {t}
            /\ UNCHANGED <<bWait, bpc, bWoke>>
    /\ UNCHANGED <<data, available, bLock, bRole, bCalls, bi, bLog, bMain>>

\* main: producer.join(); consumer.join(); then "Main thread finished execution".
BufferJoin ==
    /\ bMain = "join"
    /\ \A t \in BufThreads : bRole[t] # "none" => bpc[t] = "terminated"
    /\ bMain' = "done"
    /\ UNCHANGED <<data, available, bLock, bWait, bRole, bCalls, bpc, bi, bLog>>
    /\ UNCHANGED <<bIntr, bIntrN, bWoke>>

NextBuffer ==
    \/ BufferStart /\ UNCHANGED <<featVars, counterVars, bankVars, npVars, acVars, seqVars>>
    \/ \E t \in BufThreads : BufferLoop(t) /\ UNCHANGED <<featVars, counterVars, bankVars, npVars, acVars, seqVars>>
    \/ \E t \in BufThreads : BufferEnter(t) /\ UNCHANGED <<featVars, counterVars, bankVars, npVars, acVars, seqVars>>
    \/ \E t \in BufThreads : PutCheck(t) /\ UNCHANGED <<featVars, counterVars, bankVars, npVars, acVars, seqVars>>
    \/ \E t \in BufThreads : GetCheck(t) /\ UNCHANGED <<featVars, counterVars, bankVars, npVars, acVars, seqVars>>
    \/ \E t \in BufThreads : BufferSpuriousWake(t)
                                /\ UNCHANGED <<featVars, counterVars, bankVars, npVars, acVars, seqVars>>
    \/ \E t \in BufThreads : BufferReacquire(t)
                                /\ UNCHANGED <<featVars, counterVars, bankVars, npVars, acVars, seqVars>>
    \/ \E t \in BufThreads : PutWrite(t) /\ UNCHANGED <<featVars, counterVars, bankVars, npVars, acVars, seqVars>>
    \/ \E t \in BufThreads : GetTake(t) /\ UNCHANGED <<featVars, counterVars, bankVars, npVars, acVars, seqVars>>
    \/ \E t \in BufThreads : BufferNotify(t) /\ UNCHANGED <<featVars, counterVars, bankVars, npVars, acVars, seqVars>>
    \/ \E t \in BufThreads : BufferReturn(t) /\ UNCHANGED <<featVars, counterVars, bankVars, npVars, acVars, seqVars>>
    \/ \E t \in BufThreads : BufferSleep(t) /\ UNCHANGED <<featVars, counterVars, bankVars, npVars, acVars, seqVars>>
    \/ BufferJoin /\ UNCHANGED <<featVars, counterVars, bankVars, npVars, acVars, seqVars>>

\* The buffer's threads, and interrupt() calls made on them from outside.
NextBufferInterrupted ==
    \/ NextBuffer
    \/ \E t \in BufThreads : BufferInterrupt(t)
                                /\ UNCHANGED <<featVars, counterVars, bankVars, npVars, acVars, seqVars>>

\* The steps of thread t that the scheduler runs when they stay possible.
BufferRun(t) ==
    /\ \/ BufferLoop(t)
       \/ PutCheck(t)
       \/ GetCheck(t)
       \/ PutWrite(t)
       \/ GetTake(t)
       \/ BufferNotify(t)
       \/ BufferReturn(t)
       \/ BufferSleep(t)
    /\ UNCHANGED <<featVars, counterVars, bankVars, npVars, acVars, seqVars>>

\* Thread t takes the buffer's monitor: on entry, or when wait() returns.
BufferAcquire(t) ==
    /\ BufferEnter(t) \/ BufferReacquire(t)
    /\ UNCHANGED <<featVars, counterVars, bankVars, npVars, acVars, seqVars>>

\* The steps of main.
BufferMain ==
    /\ BufferStart \/ BufferJoin
    /\ UNCHANGED <<featVars, counterVars, bankVars, npVars, acVars, seqVars>>

\* Fair scheduling: a thread that can run does run, and a thread that finds the
\* monitor free again and again gets it.  Nothing obliges a waiting thread to
\* wake up without a notify.
BufferFairness ==
    /\ WF_vars(BufferMain)
    /\ \A t \in BufThreads : WF_vars(BufferRun(t))
    /\ \A t \in BufThreads : SF_vars(BufferAcquire(t))

(***************************************************************************)
(* NumberPrinter: two threads print odd and even numbers                   *)
(***************************************************************************)
\* Thread 1 calls printOdd() again and again, thread 2 calls printEven().
OddThread == 1
EvenThread == 2
PrinterThreads == {OddThread, EvenThread}

InitPrinter ==
    /\ number = 1
    /\ isEvenTurn = FALSE
    /\ npLock = 0
    /\ npWait = {}
    /\ nppc = [t \in PrinterThreads |-> "call"]
    /\ npk = [t \in PrinterThreads |-> 0]
    /\ printed = <<>>

\* Entry of the synchronized method printOdd() or printEven().
PrinterEnter(t) ==
    /\ nppc[t] = "call"
    /\ npk[t] < MaxPrints
    /\ npLock = 0
    /\ npLock' = t
    /\ nppc' = [nppc EXCEPT ![t] = "check"]
    /\ UNCHANGED <<number, isEvenTurn, npWait, npk, printed>>

\* printOdd() that does not wait for its turn.
PrintOddCheckNoWait ==
    /\ nppc[OddThread] = "check"
    /\ nppc' = [nppc EXCEPT ![OddThread] = "print"]
    /\ UNCHANGED <<number, isEvenTurn, npLock, npWait, npk, printed>>

\* printOdd(): while (isEvenTurn) wait();
PrintOddCheck ==
    /\ nppc[OddThread] = "check"
    /\ IF isEvenTurn
       THEN /\ nppc' = [nppc EXCEPT ![OddThread] = "waiting"]
            /\ npWait' = npWait \cup {OddThread}
            /\ npLock' = 0
       ELSE /\ nppc' = [nppc EXCEPT ![OddThread] = "print"]
            /\ UNCHANGED <<npWait, npLock>>
    /\ UNCHANGED <<number, isEvenTurn, npk, printed>>

\* printEven(): while (!isEvenTurn) wait();
PrintEvenCheck ==
    /\ nppc[EvenThread] = "check"
    /\ IF ~isEvenTurn
       THEN /\ nppc' = [nppc EXCEPT ![EvenThread] = "waiting"]
            /\ npWait' = npWait \cup {EvenThread}
            /\ npLock' = 0
       ELSE /\ nppc' = [nppc EXCEPT ![EvenThread] = "print"]
            /\ UNCHANGED <<npWait, npLock>>
    /\ UNCHANGED <<number, isEvenTurn, npk, printed>>

\* A waiting thread may wake up without a notify (a spurious wake-up).
PrinterSpuriousWake(t) ==
    /\ nppc[t] = "waiting"
    /\ t \in npWait
    /\ npWait' = npWait \ {t}
    /\ nppc' = [nppc EXCEPT ![t] = "woken"]
    /\ UNCHANGED <<number, isEvenTurn, npLock, npk, printed>>

\* wait() returns once the woken thread has the monitor again; the loop tests again.
PrinterReacquire(t) ==
    /\ nppc[t] = "woken"
    /\ npLock = 0
    /\ npLock' = t
    /\ nppc' = [nppc EXCEPT ![t] = "check"]
    /\ UNCHANGED <<number, isEvenTurn, npWait, npk, printed>>

\* println(name + ": " + number); number++; isEvenTurn = <the other thread's turn>;
PrinterPrint(t) ==
    /\ nppc[t] = "print"
    /\ printed' = Append(printed, [by |-> t, n |-> number])
    /\ number' = IntInc(number)
    /\ isEvenTurn' = (t = OddThread)
    /\ nppc' = [nppc EXCEPT ![t] = "notify"]
    /\ UNCHANGED <<npLock, npWait, npk>>

\* notify(): one thread of the wait set is woken; none if it is empty.
PrinterNotify(t) ==
    /\ nppc[t] = "notify"
    /\ IF npWait = {}
       THEN UNCHANGED npWait /\ nppc' = [nppc EXCEPT ![t] = "return"]
       ELSE \E u \in npWait :
               /\ npWait' = npWait \ {u}
               /\ nppc' = [nppc EXCEPT ![t] = "return", ![u] = "woken"]
    /\ UNCHANGED <<number, isEvenTurn, npLock, npk, printed>>

\* The method returns: the monitor is released; the thread calls again.
PrinterReturn(t) ==
    /\ nppc[t] = "return"
    /\ npLock' = IF npLock = t THEN 0 ELSE npLock
    /\ npk' = [npk EXCEPT ![t] = npk[t] + 1]
    /\ nppc' = [nppc EXCEPT ![t] = "call"]
    /\ UNCHANGED <<number, isEvenTurn, npWait, printed>>

NextPrinter ==
    \/ \E t \in PrinterThreads :
          PrinterEnter(t) /\ UNCHANGED <<featVars, counterVars, bankVars, bufVars, acVars, seqVars>>
    \/ PrintOddCheck /\ UNCHANGED <<featVars, counterVars, bankVars, bufVars, acVars, seqVars>>
    \/ PrintEvenCheck /\ UNCHANGED <<featVars, counterVars, bankVars, bufVars, acVars, seqVars>>
    \/ \E t \in PrinterThreads :
          PrinterSpuriousWake(t) /\ UNCHANGED <<featVars, counterVars, bankVars, bufVars, acVars, seqVars>>
    \/ \E t \in PrinterThreads :
          PrinterReacquire(t) /\ UNCHANGED <<featVars, counterVars, bankVars, bufVars, acVars, seqVars>>
    \/ \E t \in PrinterThreads :
          PrinterPrint(t) /\ UNCHANGED <<featVars, counterVars, bankVars, bufVars, acVars, seqVars>>
    \/ \E t \in PrinterThreads :
          PrinterNotify(t) /\ UNCHANGED <<featVars, counterVars, bankVars, bufVars, acVars, seqVars>>
    \/ \E t \in PrinterThreads :
          PrinterReturn(t) /\ UNCHANGED <<featVars, counterVars, bankVars, bufVars, acVars, seqVars>>

(***************************************************************************)
(* BankAccount of the encapsulation notes                                  *)
(***************************************************************************)
\* A String is a sequence of characters; the null reference is set apart.
Null == <<"null">>
Str_John == <<"J", "o", "h", "n">>
Str_Jane == <<" ", "J", "a", "n", "e">>
Str_Blank == <<" ", " ">>
Str_123 == <<"1", "2", "3">>

RECURSIVE TrimLeft(_)
TrimLeft(str) ==
    IF str # <<>> /\ Head(str) = " " THEN TrimLeft(Tail(str)) ELSE str

RECURSIVE TrimRight(_)
TrimRight(str) ==
    IF str # <<>> /\ str[Len(str)] = " "
    THEN TrimRight(SubSeq(str, 1, Len(str) - 1))
    ELSE str

\* String.trim()
Trim(str) == TrimRight(TrimLeft(str))

\* Arguments the account's methods are tried with.
AccountAmounts == {Num(500), Num(200), Num(2000), Num(0), Num(-200), NaN, PosInf}
AccountInitialBalances == {Num(1000), Num(0), Num(-100), NaN}
HolderNames == {Str_Jane, Str_Blank, <<>>, Null}

\* new BankAccount(accountNumber, accountHolder, initialBalance)
InitAccount(num, holder, initialBalance) ==
    /\ accountNumber = num
    /\ accountHolder = holder
    /\ balance = IF DGe(initialBalance, Num(0)) THEN initialBalance ELSE Num(0)
    /\ acLast = [op |-> "new", amount |-> initialBalance, ret |-> TRUE,
                 before |-> [accountNumber |-> num, accountHolder |-> holder,
                             balance |-> initialBalance]]
    /\ acOps = 0

AccountFields ==
    [accountNumber |-> accountNumber, accountHolder |-> accountHolder, balance |-> balance]

\* setAccountHolder(accountHolder)
SetAccountHolder(h) ==
    /\ acOps < MaxAccountOps
    /\ acOps' = acOps + 1
    /\ accountHolder' = IF h # Null /\ Trim(h) # <<>> THEN h ELSE accountHolder
    /\ acLast' = [op |-> "setAccountHolder", amount |-> Num(0), ret |-> TRUE,
                  before |-> AccountFields]
    /\ UNCHANGED <<accountNumber, balance>>

\* deposit(amount)
AccountDeposit(amount) ==
    /\ acOps < MaxAccountOps
    /\ acOps' = acOps + 1
    /\ IF DGt(amount, Num(0))
       THEN /\ balance' = DAdd(balance, amount)
            /\ acLast' = [op |-> "deposit", amount |-> amount, ret |-> TRUE,
                          before |-> AccountFields]
       ELSE /\ UNCHANGED balance
            /\ acLast' = [op |-> "deposit", amount |-> amount, ret |-> FALSE,
                          before |-> AccountFields]
    /\ UNCHANGED <<accountNumber, accountHolder>>

\* withdraw() that does not look at the balance.
AccountWithdrawNoFundsCheck(amount) ==
    /\ acOps < MaxAccountOps
    /\ acOps' = acOps + 1
    /\ IF DGt(amount, Num(0))
       THEN /\ balance' = DSub(balance, amount)
            /\ acLast' = [op |-> "withdraw", amount |-> amount, ret |-> TRUE,
                          before |-> AccountFields]
       ELSE /\ UNCHANGED balance
            /\ acLast' = [op |-> "withdraw", amount |-> amount, ret |-> FALSE,
                          before |-> AccountFields]
    /\ UNCHANGED <<accountNumber, accountHolder>>

\* withdraw(amount)
AccountWithdraw(amount) ==
    /\ acOps < MaxAccountOps
    /\ acOps' = acOps + 1
    /\ IF DGt(amount, Num(0)) /\ DLe(amount, balance)
       THEN /\ balance' = DSub(balance, amount)
            /\ acLast' = [op |-> "withdraw", amount |-> amount, ret |-> TRUE,
                          before |-> AccountFields]
       ELSE /\ UNCHANGED balance
            /\ acLast' = [op |-> "withdraw", amount |-> amount, ret |-> FALSE,
                          before |-> AccountFields]
    /\ UNCHANGED <<accountNumber, accountHolder>>

NextAccount ==
    \/ \E h \in HolderNames :
          SetAccountHolder(h) /\ UNCHANGED <<featVars, counterVars, bankVars, bufVars, npVars, seqVars>>
    \/ \E a \in AccountAmounts :
          AccountDeposit(a) /\ UNCHANGED <<featVars, counterVars, bankVars, bufVars, npVars, seqVars>>
    \/ \E a \in AccountAmounts :
          AccountWithdraw(a) /\ UNCHANGED <<featVars, counterVars, bankVars, bufVars, npVars, seqVars>>

(***************************************************************************)
(* Student of the encapsulation notes                                      *)
(***************************************************************************)
Str_Alice == <<"A", "l", "i", "c", "e">>

\* Arguments the constructor and the setters are tried with.
StudentNames == {Str_Alice, Str_Jane, Str_Blank, <<>>, Null}
StudentAges == {-5, 0, 1, 20, 149, 150, 200}
StudentGpas == {Num(-1), Num(0), Num(3), Num(4), Num(5), NaN}

StudentFields == [id |-> stId, name |-> stName, age |-> stAge, gpa |-> stGpa]

\* The fields of a Student before its constructor body runs.
StudentDefaults(id) == [id |-> id, name |-> Null, age |-> 0, gpa |-> Num(0)]

\* What setName, setAge and setGpa leave in the field they guard.
NameAfterSet(cur, name) ==
    IF name # Null /\ Trim(name) # <<>> THEN Trim(name) ELSE cur
AgeAfterSet(cur, age) ==
    IF age > 0 /\ age < 150 THEN age ELSE cur
GpaAfterSet(cur, gpa) ==
    IF DGe(gpa, Num(0)) /\ DLe(gpa, Num(4)) THEN gpa ELSE cur

\* new Student(id, name, age, gpa): the constructor goes through the setters.
InitStudent(id, name, age, gpa) ==
    /\ stId = id
    /\ stName = NameAfterSet(Null, name)
    /\ stAge = AgeAfterSet(0, age)
    /\ stGpa = GpaAfterSet(Num(0), gpa)
    /\ stLast = [op |-> "new", arg |-> <<name, age, gpa>>, before |-> StudentDefaults(id)]
    /\ stOps = 0

\* setName stripped of its validation.
SetNameNoCheck(name) ==
    /\ stOps < MaxStudentOps
    /\ stOps' = stOps + 1
    /\ stName' = IF name = Null THEN Null ELSE Trim(name)
    /\ stLast' = [op |-> "setName", arg |-> name, before |-> StudentFields]
    /\ UNCHANGED <<stId, stAge, stGpa>>

\* setName(name)
SetName(name) ==
    /\ stOps < MaxStudentOps
    /\ stOps' = stOps + 1
    /\ stName' = NameAfterSet(stName, name)
    /\ stLast' = [op |-> "setName", arg |-> name, before |-> StudentFields]
    /\ UNCHANGED <<stId, stAge, stGpa>>

\* setAge(age)
SetAge(age) ==
    /\ stOps < MaxStudentOps
    /\ stOps' = stOps + 1
    /\ stAge' = AgeAfterSet(stAge, age)
    /\ stLast' = [op |-> "setAge", arg |-> age, before |-> StudentFields]
    /\ UNCHANGED <<stId, stName, stGpa>>

\* setGpa(gpa)
SetGpa(gpa) ==
    /\ stOps < MaxStudentOps
    /\ stOps' = stOps + 1
    /\ stGpa' = GpaAfterSet(stGpa, gpa)
    /\ stLast' = [op |-> "setGpa", arg |-> gpa, before |-> StudentFields]
    /\ UNCHANGED <<stId, stName, stAge>>

NextStudent ==
    \/ \E n \in StudentNames :
          SetName(n) /\ UNCHANGED <<concVars, vaVars, feVars, xbVars, rdVars, fmVars, skVars, pfVars, urVars, rfVars, pmVars>>
    \/ \E a \in StudentAges :
          SetAge(a) /\ UNCHANGED <<concVars, vaVars, feVars, xbVars, rdVars, fmVars, skVars, pfVars, urVars, rfVars, pmVars>>
    \/ \E g \in StudentGpas :
          SetGpa(g) /\ UNCHANGED <<concVars, vaVars, feVars, xbVars, rdVars, fmVars, skVars, pfVars, urVars, rfVars, pmVars>>

(***************************************************************************)
(* validateAge                                                             *)
(***************************************************************************)
MinInt == -2147483647 - 1
MaxInt == 2147483647

\* The ages validateAge is tried with: all around its limits, and the extremes
\* of int.
ValidateAges == ((0 - AgeMargin)..(150 + AgeMargin)) \cup {MinInt, MaxInt}

InitValidate(age) ==
    /\ vaAge = age
    /\ vaResult = "pending"

\* validateAge with the test for a minor made first.
ValidateAgeMinorFirst(age) ==
    IF age < 18 THEN "Age must be 18 or above"
    ELSE IF age < 0 THEN "Age cannot be negative"
    ELSE IF age > 150 THEN "Age cannot be greater than 150"
    ELSE "returned"

\* validateAge(age): the message of the InvalidAgeException it throws, or
\* "returned".
ValidateAge(age) ==
    IF age < 0 THEN "Age cannot be negative"
    ELSE IF age > 150 THEN "Age cannot be greater than 150"
    ELSE IF age < 18 THEN "Age must be 18 or above"
    ELSE "returned"

\* The call validateAge(vaAge).
ValidateAgeCall ==
    /\ vaResult = "pending"
    /\ vaResult' = ValidateAge(vaAge)
    /\ UNCHANGED vaAge

NextValidate ==
    \/ ValidateAgeCall /\ UNCHANGED <<concVars, stVars, feVars, xbVars, rdVars, fmVars, skVars, pfVars, urVars, rfVars, pmVars>>

(***************************************************************************)
(* finallyExample                                                          *)
(***************************************************************************)
\* System.in has no line left: Scanner.nextLine() throws NoSuchElementException.
EndOfInput == <<"EOF">>

Str_MaxInt == <<"2", "1", "4", "7", "4", "8", "3", "6", "4", "7">>
Str_MaxIntPlus1 == <<"2", "1", "4", "7", "4", "8", "3", "6", "4", "8">>
Str_MinInt == <<"-">> \o Str_MaxIntPlus1

\* The characters of the lines tried.
LineChars == {"1", "9", "-", "+", "a", " "}

\* What System.in is tried with.
FinallyInputs ==
    SeqsUpTo(LineChars, MaxLineLen) \cup {EndOfInput, Str_123, Str_MaxInt, Str_MaxIntPlus1, Str_MinInt}

\* Character.digit(c, 10): -1 when c is no digit.
Digit(c) ==
    CASE c = "0" -> 0 [] c = "1" -> 1 [] c = "2" -> 2 [] c = "3" -> 3 [] c = "4" -> 4
      [] c = "5" -> 5 [] c = "6" -> 6 [] c = "7" -> 7 [] c = "8" -> 8 [] c = "9" -> 9
      [] OTHER -> -1

NumberFormat == [ok |-> FALSE, val |-> 0]

\* The digit loop of Integer.parseInt: it accumulates the negated value in
\* result and gives up on a character that is no digit and on overflow.
RECURSIVE ParseDigits(_, _, _)
ParseDigits(str, result, limit) ==
    LET multmin == 0 - ((0 - (limit + 1)) \div 10)
        d == Digit(Head(str))
    IN  IF str = <<>> THEN [ok |-> TRUE, val |-> result]
        ELSE IF d < 0 \/ result < multmin THEN NumberFormat
        ELSE IF result * 10 < limit + d THEN NumberFormat
        ELSE ParseDigits(Tail(str), result * 10 - d, limit)

\* Integer.parseInt(str): [ok |-> TRUE, val |-> n], or NumberFormat when it
\* throws NumberFormatException.
ParseInt(str) ==
    IF str = <<>> THEN NumberFormat
    ELSE IF Head(str) = "-"
         THEN IF Len(str) = 1 THEN NumberFormat ELSE ParseDigits(Tail(str), 0, MinInt)
    ELSE LET r == IF Head(str) = "+"
                  THEN IF Len(str) = 1 THEN NumberFormat
                       ELSE ParseDigits(Tail(str), 0, 0 - MaxInt)
                  ELSE ParseDigits(str, 0, 0 - MaxInt)
         IN  IF r.ok THEN [ok |-> TRUE, val |-> 0 - r.val] ELSE NumberFormat

InitFinally(input) ==
    /\ feInput = input
    /\ fePc = "start"
    /\ feScanner = "none"
    /\ feFinally = 0
    /\ fePending = "none"
    /\ feOut = <<>>

\* The banner and new Scanner(System.in).
FinallyStart ==
    /\ fePc = "start"
    /\ feOut' = Append(feOut, "=== Finally Block Example ===")
    /\ feScanner' = "open"
    /\ fePc' = "try"
    /\ UNCHANGED <<feInput, feFinally, fePending>>

\* The try block with an exception that leaves the method at once, as if the
\* clean-up stood after the try statement.
TryBlockSkipsFinally ==
    /\ fePc = "try"
    /\ IF feInput = EndOfInput
       THEN /\ fePending' = "NoSuchElementException"
            /\ fePc' = "thrown"
            /\ feOut' = Append(feOut, "Enter a number: ")
       ELSE IF ParseInt(feInput).ok
       THEN /\ feOut' = feOut \o <<"Enter a number: ", <<"You entered: ", ParseInt(feInput).val>> >>
            /\ fePc' = "finally"
            /\ UNCHANGED fePending
       ELSE /\ fePending' = "NumberFormatException"
            /\ fePc' = "catch"
            /\ feOut' = Append(feOut, "Enter a number: ")
    /\ UNCHANGED <<feInput, feScanner, feFinally>>

\* The try block: prompt, scanner.nextLine(), Integer.parseInt, println.
TryBlock ==
    /\ fePc = "try"
    /\ IF feInput = EndOfInput
       THEN /\ fePending' = "NoSuchElementException"
            /\ fePc' = "finally"
            /\ feOut' = Append(feOut, "Enter a number: ")
       ELSE IF ParseInt(feInput).ok
       THEN /\ feOut' = feOut \o <<"Enter a number: ", <<"You entered: ", ParseInt(feInput).val>> >>
            /\ fePc' = "finally"
            /\ UNCHANGED fePending
       ELSE /\ fePending' = "NumberFormatException"
            /\ fePc' = "catch"
            /\ feOut' = Append(feOut, "Enter a number: ")
    /\ UNCHANGED <<feInput, feScanner, feFinally>>

\* catch (NumberFormatException e)
CatchBlock ==
    /\ fePc = "catch"
    /\ feOut' = Append(feOut, "Invalid number format!")
    /\ fePending' = "none"
    /\ fePc' = "finally"
    /\ UNCHANGED <<feInput, feScanner, feFinally>>

\* The finally block, then the way out: a return, or the pending exception.
FinallyBlock ==
    /\ fePc = "finally"
    /\ feOut' = Append(feOut, "Finally block always executes")
    /\ feFinally' = feFinally + 1
    /\ feScanner' = "closed"
    /\ fePc' = IF fePending = "none" THEN "returned" ELSE "thrown"
    /\ UNCHANGED <<feInput, fePending>>

NextFinally ==
    \/ FinallyStart /\ UNCHANGED <<concVars, stVars, vaVars, xbVars, rdVars, fmVars, skVars, pfVars, urVars, rfVars, pmVars>>
    \/ TryBlock /\ UNCHANGED <<concVars, stVars, vaVars, xbVars, rdVars, fmVars, skVars, pfVars, urVars, rfVars, pmVars>>
    \/ CatchBlock /\ UNCHANGED <<concVars, stVars, vaVars, xbVars, rdVars, fmVars, skVars, pfVars, urVars, rfVars, pmVars>>
    \/ FinallyBlock /\ UNCHANGED <<concVars, stVars, vaVars, xbVars, rdVars, fmVars, skVars, pfVars, urVars, rfVars, pmVars>>

(***************************************************************************)
(* BankAccount of the InsufficientFundsException exercise                  *)
(***************************************************************************)
\* new InsufficientFundsException(amount), and no exception.
InsufficientFundsException(amount) == [type |-> "InsufficientFundsException", amount |-> amount]
NoException == [type |-> "none", amount |-> Num(0)]

\* Amounts withdraw is tried with; a negative amount raises the balance.
ExerciseAmounts == {Num(-100), Num(0), Num(50), Num(200), NaN, PosInf, NegInf}

\* The class has no constructor: balance starts as 0.0.
InitExercise ==
    /\ xbBalance = Num(0)
    /\ xbLast = [amount |-> Num(0), before |-> Num(0), thrown |-> NoException]
    /\ xbOps = 0

\* withdraw with the subtraction made before the test.
ExerciseWithdrawSubtractsFirst(amount) ==
    /\ xbOps < MaxExerciseOps
    /\ xbOps' = xbOps + 1
    /\ xbBalance' = DSub(xbBalance, amount)
    /\ xbLast' = [amount |-> amount, before |-> xbBalance,
                  thrown |-> IF DGt(amount, xbBalance)
                             THEN InsufficientFundsException(amount)
                             ELSE NoException]

\* withdraw(amount)
ExerciseWithdraw(amount) ==
    /\ xbOps < MaxExerciseOps
    /\ xbOps' = xbOps + 1
    /\ IF DGt(amount, xbBalance)
       THEN /\ xbLast' = [amount |-> amount, before |-> xbBalance,
                          thrown |-> InsufficientFundsException(amount)]
            /\ UNCHANGED xbBalance
       ELSE /\ xbBalance' = DSub(xbBalance, amount)
            /\ xbLast' = [amount |-> amount, before |-> xbBalance, thrown |-> NoException]

NextExercise ==
    \/ \E a \in ExerciseAmounts :
          ExerciseWithdraw(a) /\ UNCHANGED <<concVars, stVars, vaVars, feVars, rdVars, fmVars, skVars, pfVars, urVars, rfVars, pmVars>>

(***************************************************************************)
(* removeDuplicates                                                        *)
(***************************************************************************)
\* A null element of a list.
NullElem == "(null)"

\* The list of the usage example, and the lists removeDuplicates is tried with.
WithDuplicates == <<"A", "B", "A", "C", "B">>
DedupElems == {"A", "B", "C", NullElem}
DedupLists == SeqsUpTo(DedupElems, MaxDedupLen) \cup {WithDuplicates}

Range(seq) == {seq[i] : i \in DOMAIN seq}

\* A set that puts a repeated element last: it forgets the earlier position.
AddMovesToEnd(set, e) ==
    Append(SelectSeq(set, LAMBDA x : x # e), e)

\* LinkedHashSet.add(e): the set in iteration order; an element already in the
\* set keeps its position.
Add(set, e) ==
    IF e \in Range(set) THEN set ELSE Append(set, e)

\* new LinkedHashSet<>(list): the elements are added in list order.
RECURSIVE AddAll(_, _)
AddAll(set, list) ==
    IF list = <<>> THEN set ELSE AddAll(Add(set, Head(list)), Tail(list))
LinkedHashSet(list) == AddAll(<<>>, list)

\* new ArrayList<>(collection): the elements in the collection's iteration order.
ArrayList(collection) == [i \in 1..Len(collection) |-> collection[i]]

\* removeDuplicates(list)
RemoveDuplicates(list) == ArrayList(LinkedHashSet(list))

InitDedup(list) ==
    /\ rdList = list
    /\ rdOrig = list
    /\ rdPc = "start"
    /\ rdOut = <<>>
    /\ rdOut2 = <<>>

\* withoutDuplicates = removeDuplicates(withDuplicates)
DedupCall ==
    /\ rdPc = "start"
    /\ rdOut' = RemoveDuplicates(rdList)
    /\ rdPc' = "once"
    /\ UNCHANGED <<rdList, rdOrig, rdOut2>>

\* removeDuplicates applied to its own result.
DedupAgain ==
    /\ rdPc = "once"
    /\ rdOut2' = RemoveDuplicates(rdOut)
    /\ rdPc' = "twice"
    /\ UNCHANGED <<rdList, rdOrig, rdOut>>

NextDedup ==
    \/ DedupCall /\ UNCHANGED <<concVars, stVars, vaVars, feVars, xbVars, fmVars, skVars, pfVars, urVars, rfVars, pmVars>>
    \/ DedupAgain /\ UNCHANGED <<concVars, stVars, vaVars, feVars, xbVars, fmVars, skVars, pfVars, urVars, rfVars, pmVars>>

(***************************************************************************)
(* findMax                                                                 *)
(***************************************************************************)
\* An element is an object with the key compareTo looks at and a tag that
\* tells apart objects that compare as equal; NullRef is the null reference.
Elem(key, tag) == [key |-> key, tag |-> tag]
NullRef == [key |-> 0, tag |-> "null"]

\* An array reference: null, or an array with its elements.
NullArray == [null |-> TRUE, elems |-> <<>>]
ArrayOf(items) == [null |-> FALSE, elems |-> items]

\* The arrays findMax is tried with.
FindMaxElems == {Elem(k, t) : k \in {1, 2}, t \in {"a", "b"}} \cup {NullRef}
FindMaxArrays == {ArrayOf(e) : e \in SeqsUpTo(FindMaxElems, MaxArrayLen)} \cup {NullArray}

\* a.compareTo(b) for non-null a and b: negative, zero or positive.
CompareTo(a, b) == a.key - b.key

\* What a call has produced.
NoResult == [kind |-> "none", val |-> NullRef]
Returned(val) == [kind |-> "value", val |-> val]
NullPointerException == [kind |-> "NullPointerException", val |-> NullRef]

InitFindMax(array) ==
    /\ fmArray = array
    /\ fmOrig = array
    /\ fmPc = "start"
    /\ fmI = 0
    /\ fmMax = NullRef
    /\ fmResult = NoResult

\* The test for null and empty, and T max = array[0].
FindMaxEnter ==
    /\ fmPc = "start"
    /\ IF fmArray.null \/ Len(fmArray.elems) = 0
       THEN /\ fmResult' = Returned(NullRef)
            /\ fmPc' = "done"
            /\ UNCHANGED <<fmMax, fmI>>
       ELSE /\ fmMax' = fmArray.elems[1]
            /\ fmI' = 1
            /\ fmPc' = "loop"
            /\ UNCHANGED fmResult
    /\ UNCHANGED <<fmArray, fmOrig>>

\* The loop body with >= in place of >.
FindMaxStepTakesEqual ==
    /\ fmPc = "loop"
    /\ fmI < Len(fmArray.elems)
    /\ LET e == fmArray.elems[fmI + 1]
       IN  IF e = NullRef \/ fmMax = NullRef
           THEN /\ fmResult' = NullPointerException
                /\ fmPc' = "done"
                /\ UNCHANGED <<fmMax, fmI>>
           ELSE /\ fmMax' = IF CompareTo(e, fmMax) >= 0 THEN e ELSE fmMax
                /\ fmI' = fmI + 1
                /\ UNCHANGED <<fmResult, fmPc>>
    /\ UNCHANGED <<fmArray, fmOrig>>

\* One pass of the loop body (array index i is position i + 1 here):
\* array[i].compareTo(max) throws NullPointerException when array[i] is null,
\* and, as compareTo's contract asks, when max is null.
FindMaxStep ==
    /\ fmPc = "loop"
    /\ fmI < Len(fmArray.elems)
    /\ LET e == fmArray.elems[fmI + 1]
       IN  IF e = NullRef \/ fmMax = NullRef
           THEN /\ fmResult' = NullPointerException
                /\ fmPc' = "done"
                /\ UNCHANGED <<fmMax, fmI>>
           ELSE /\ fmMax' = IF CompareTo(e, fmMax) > 0 THEN e ELSE fmMax
                /\ fmI' = fmI + 1
                /\ UNCHANGED <<fmResult, fmPc>>
    /\ UNCHANGED <<fmArray, fmOrig>>

\* The loop ends: return max.
FindMaxReturn ==
    /\ fmPc = "loop"
    /\ fmI >= Len(fmArray.elems)
    /\ fmResult' = Returned(fmMax)
    /\ fmPc' = "done"
    /\ UNCHANGED <<fmArray, fmOrig, fmMax, fmI>>

NextFindMax ==
    \/ FindMaxEnter /\ UNCHANGED <<concVars, stVars, vaVars, feVars, xbVars, rdVars, skVars, pfVars, urVars, rfVars, pmVars>>
    \/ FindMaxStep /\ UNCHANGED <<concVars, stVars, vaVars, feVars, xbVars, rdVars, skVars, pfVars, urVars, rfVars, pmVars>>
    \/ FindMaxReturn /\ UNCHANGED <<concVars, stVars, vaVars, feVars, xbVars, rdVars, skVars, pfVars, urVars, rfVars, pmVars>>

(***************************************************************************)
(* Stack<T>                                                                *)
(***************************************************************************)
\* The elements pushed; a Stack accepts null.
StackElems == {"a", "b", NullElem}

\* What pop and peek give on an empty stack.
EmptyStackException == "EmptyStackException"

\* new Stack<>()
InitStack ==
    /\ elements = <<>>
    /\ skLog = <<>>

Logged(op, arg, ret, after) ==
    Append(skLog, [op |-> op, arg |-> arg, ret |-> ret, after |-> after])

\* push(element)
Push(element) ==
    /\ Len(skLog) < MaxStackOps
    /\ elements' = Append(elements, element)
    /\ skLog' = Logged("push", element, "void", elements')

\* pop taking the oldest element: elements.remove(0).
PopOldest ==
    /\ Len(skLog) < MaxStackOps
    /\ IF elements = <<>>
       THEN /\ skLog' = Logged("pop", "none", EmptyStackException, elements)
            /\ UNCHANGED elements
       ELSE /\ elements' = Tail(elements)
            /\ skLog' = Logged("pop", "none", Head(elements), elements')

\* pop()
Pop ==
    /\ Len(skLog) < MaxStackOps
    /\ IF elements = <<>>
       THEN /\ skLog' = Logged("pop", "none", EmptyStackException, elements)
            /\ UNCHANGED elements
       ELSE /\ elements' = SubSeq(elements, 1, Len(elements) - 1)
            /\ skLog' = Logged("pop", "none", elements[Len(elements)], elements')

\* peek()
Peek ==
    /\ Len(skLog) < MaxStackOps
    /\ skLog' = Logged("peek", "none",
                       IF elements = <<>> THEN EmptyStackException
                       ELSE elements[Len(elements)],
                       elements)
    /\ UNCHANGED elements

\* isEmpty()
IsEmpty ==
    /\ Len(skLog) < MaxStackOps
    /\ skLog' = Logged("isEmpty", "none", IF elements = <<>> THEN "true" ELSE "false", elements)
    /\ UNCHANGED elements

NextStack ==
    \/ \E x \in StackElems :
          Push(x) /\ UNCHANGED <<concVars, stVars, vaVars, feVars, xbVars, rdVars, fmVars, pfVars, urVars, rfVars, pmVars>>
    \/ Pop /\ UNCHANGED <<concVars, stVars, vaVars, feVars, xbVars, rdVars, fmVars, pfVars, urVars, rfVars, pmVars>>
    \/ Peek /\ UNCHANGED <<concVars, stVars, vaVars, feVars, xbVars, rdVars, fmVars, pfVars, urVars, rfVars, pmVars>>
    \/ IsEmpty /\ UNCHANGED <<concVars, stVars, vaVars, feVars, xbVars, rdVars, fmVars, pfVars, urVars, rfVars, pmVars>>

(***************************************************************************)
(* performanceComparison                                                   *)
(***************************************************************************)
\* a + b on ints: the result wraps to 32 bits, two's complement.
AddInt(a, b) ==
    IF a > 0 /\ b > 0 /\ a > MaxInt - b
    THEN (a - MaxInt - 1) + (b - MaxInt - 1)
    ELSE IF a < 0 /\ b < 0 /\ a < MinInt - b
    THEN (a + MaxInt + 1) + (b + MaxInt + 1)
    ELSE a + b

\* An addition that stops at the limits of int instead of wrapping.
AddSaturating(a, b) ==
    IF a > 0 /\ b > 0 /\ a > MaxInt - b THEN MaxInt
    ELSE IF a < 0 /\ b < 0 /\ a < MinInt - b THEN MinInt
    ELSE a + b

\* Integer.sum(a, b), the accumulator of IntStream.sum().
IntegerSum(a, b) == AddInt(a, b)

\* num % 2 == 0 (Java's remainder of an even number is 0 whatever its sign).
IsEven(num) == num % 2 = 0

\* The list the method builds, cut short, and the lists the two sums are tried
\* with; the large values make the sum leave the int range.
SampleNumbers == [i \in 1..PerfListSize |-> i - 1]
PerfInts == {0, 3, -2, 1073741824, MaxInt - 1, MinInt}
PerfLists == SeqsUpTo(PerfInts, MaxPerfLen) \cup {SampleNumbers}

InitPerf(list) ==
    /\ numbers = list
    /\ pfPc = "loop"
    /\ pfI = 0
    /\ sum1 = 0
    /\ sum2 = 0
    /\ pfEqual = "none"

\* One pass of the traditional loop.
LoopStep ==
    /\ pfPc = "loop"
    /\ pfI < Len(numbers)
    /\ sum1' = IF IsEven(numbers[pfI + 1]) THEN AddInt(sum1, numbers[pfI + 1]) ELSE sum1
    /\ pfI' = pfI + 1
    /\ UNCHANGED <<numbers, pfPc, sum2, pfEqual>>

\* The loop ends; the stream pipeline starts.
LoopEnd ==
    /\ pfPc = "loop"
    /\ pfI = Len(numbers)
    /\ pfPc' = "stream"
    /\ pfI' = 0
    /\ UNCHANGED <<numbers, sum1, sum2, pfEqual>>

\* One element goes through filter, mapToInt and the reduction of sum().
StreamStep ==
    /\ pfPc = "stream"
    /\ pfI < Len(numbers)
    /\ sum2' = IF IsEven(numbers[pfI + 1]) THEN IntegerSum(sum2, numbers[pfI + 1]) ELSE sum2
    /\ pfI' = pfI + 1
    /\ UNCHANGED <<numbers, pfPc, sum1, pfEqual>>

\* The stream is exhausted; "Results equal? " is printed.
StreamEnd ==
    /\ pfPc = "stream"
    /\ pfI = Len(numbers)
    /\ pfPc' = "done"
    /\ pfEqual' = IF sum1 = sum2 THEN "true" ELSE "false"
    /\ UNCHANGED <<numbers, pfI, sum1, sum2>>

NextPerf ==
    \/ LoopStep /\ UNCHANGED <<concVars, stVars, vaVars, feVars, xbVars, rdVars, fmVars, skVars, urVars, rfVars, pmVars>>
    \/ LoopEnd /\ UNCHANGED <<concVars, stVars, vaVars, feVars, xbVars, rdVars, fmVars, skVars, urVars, rfVars, pmVars>>
    \/ StreamStep /\ UNCHANGED <<concVars, stVars, vaVars, feVars, xbVars, rdVars, fmVars, skVars, urVars, rfVars, pmVars>>
    \/ StreamEnd /\ UNCHANGED <<concVars, stVars, vaVars, feVars, xbVars, rdVars, fmVars, skVars, urVars, rfVars, pmVars>>

(***************************************************************************)
(* UserRepository and User                                                 *)
(***************************************************************************)
MaxRepoOps == 4

\* The User objects of a run, and the ids setId() is called with.
RepoUsers == {"john", "jane", "bob"}
PresetIds == {0, 1, 2, 7}

\* What Map.get returns for a key that is not in the map.
NullUser == "null"

\* HashMap.put, HashMap.remove and HashMap.get on a function from keys to values.
MapPut(map, key, value) ==
    [k \in DOMAIN map \cup {key} |-> IF k = key THEN value ELSE map[k]]

MapRemove(map, key) == [k \in DOMAIN map \ {key} |-> map[k]]

MapGet(map, key) == IF key \in DOMAIN map THEN map[key] ELSE NullUser

\* HashMap.values() as a list: the small non-negative Long keys of a run hash to
\* their own value, so the iteration goes in key order.
RECURSIVE MapValues(_, _)
MapValues(map, keys) ==
    IF keys = {} THEN <<>>
    ELSE LET k == CHOOSE x \in keys : \A y \in keys : x <= y
         IN  <<map[k]>> \o MapValues(map, keys \ {k})

\* new UserRepository() and new User(name, email) for every user: the field id
\* keeps its default 0.
InitRepo ==
    /\ users = [k \in {} |-> NullUser]
    /\ nextId = 1
    /\ urId = [u \in RepoUsers |-> 0]
    /\ urSaved = {}
    /\ urEver = {}
    /\ urGen = <<>>
    /\ urLast = [op |-> "none"]
    /\ urOps = 0

\* user.setId(id), called on a user that was not saved yet.
SetId(u, id) ==
    /\ urOps < MaxRepoOps
    /\ u \notin urEver
    /\ urId' = [urId EXCEPT ![u] = id]
    /\ urLast' = [op |-> "setId", user |-> u, id |-> id, before |-> users,
                  beforeId |-> urId[u], beforeNext |-> nextId]
    /\ urOps' = urOps + 1
    /\ UNCHANGED <<users, nextId, urSaved, urEver, urGen>>

\* save with nextId left where it was.
SaveWithoutIncrement(u) ==
    /\ urOps < MaxRepoOps
    /\ LET fresh == urId[u] = 0
           id == IF fresh THEN nextId ELSE urId[u]
       IN  /\ urId' = [urId EXCEPT ![u] = id]
           /\ users' = MapPut(users, id, u)
           /\ urGen' = IF fresh THEN Append(urGen, id) ELSE urGen
           /\ urLast' = [op |-> "save", user |-> u, id |-> id, before |-> users,
                         beforeId |-> urId[u], beforeNext |-> nextId]
    /\ urSaved' = urSaved \cup {u}
    /\ urEver' = urEver \cup {u}
    /\ urOps' = urOps + 1
    /\ UNCHANGED nextId

\* save(user): if (user.getId() == 0) user.setId(nextId++);
\* users.put(user.getId(), user).
Save(u) ==
    /\ urOps < MaxRepoOps
    /\ LET fresh == urId[u] = 0
           id == IF fresh THEN nextId ELSE urId[u]
       IN  /\ urId' = [urId EXCEPT ![u] = id]
           /\ nextId' = IF fresh THEN nextId + 1 ELSE nextId
           /\ users' = MapPut(users, id, u)
           /\ urGen' = IF fresh THEN Append(urGen, id) ELSE urGen
           /\ urLast' = [op |-> "save", user |-> u, id |-> id, before |-> users,
                         beforeId |-> urId[u], beforeNext |-> nextId]
    /\ urSaved' = urSaved \cup {u}
    /\ urEver' = urEver \cup {u}
    /\ urOps' = urOps + 1

\* findById(id): users.get(id).
FindById(id) == MapGet(users, id)

\* findAll(): new ArrayList<>(users.values()).
FindAll == MapValues(users, DOMAIN users)

\* delete(user): users.remove(user.getId()).
Delete(u) ==
    /\ urOps < MaxRepoOps
    /\ users' = MapRemove(users, urId[u])
    /\ urSaved' = urSaved \ {u}
    /\ urLast' = [op |-> "delete", user |-> u, id |-> urId[u], before |-> users,
                  beforeId |-> urId[u], beforeNext |-> nextId]
    /\ urOps' = urOps + 1
    /\ UNCHANGED <<nextId, urId, urEver, urGen>>

NextRepo ==
    \/ \E u \in RepoUsers, id \in PresetIds :
          SetId(u, id) /\ UNCHANGED <<concVars, stVars, vaVars, feVars, xbVars, rdVars, fmVars, skVars, pfVars, rfVars, pmVars>>
    \/ \E u \in RepoUsers :
          Save(u) /\ UNCHANGED <<concVars, stVars, vaVars, feVars, xbVars, rdVars, fmVars, skVars, pfVars, rfVars, pmVars>>
    \/ \E u \in RepoUsers :
          Delete(u) /\ UNCHANGED <<concVars, stVars, vaVars, feVars, xbVars, rdVars, fmVars, skVars, pfVars, rfVars, pmVars>>

(***************************************************************************)
(* readFile and processFile                                                *)
(***************************************************************************)
MaxFileLines == 3

\* A file: whether it exists, how many lines it has and which readLine() call
\* fails with an IOException (0: none).
FileOf(exists, lines, failAt) == [exists |-> exists, lines |-> lines, failAt |-> failAt]

Files ==
    {FileOf(e, n, f) : e \in BOOLEAN, n \in 0..MaxFileLines, f \in 0..(MaxFileLines + 1)}

\* The file main passes to processFile.
TestTxt == FileOf(TRUE, 2, 0)

ReaderMethods == {"readFile", "processFile"}

\* The state at the call of method on file.
InitReader(method, file) ==
    /\ rfMethod = method
    /\ rfFile = file
    /\ rfPc = "start"
    /\ rfReader = "none"
    /\ rfCalls = 0
    /\ rfThrown = "none"

\* readFile: new BufferedReader(new FileReader(filename)); the FileReader
\* constructor throws FileNotFoundException for a missing file.
ReadFileOpen ==
    /\ rfMethod = "readFile"
    /\ rfPc = "start"
    /\ IF rfFile.exists
       THEN /\ rfReader' = "open"
            /\ rfPc' = "loop"
            /\ UNCHANGED rfThrown
       ELSE /\ rfThrown' = "FileNotFoundException"
            /\ rfPc' = "done"
            /\ UNCHANGED rfReader
    /\ UNCHANGED <<rfMethod, rfFile, rfCalls>>

\* readFile: while ((line = reader.readLine()) != null) println(line); an
\* IOException of readLine() leaves the method at once.
ReadFileLine ==
    /\ rfMethod = "readFile"
    /\ rfPc = "loop"
    /\ rfCalls' = rfCalls + 1
    /\ IF rfFile.failAt = rfCalls + 1
       THEN /\ rfThrown' = "IOException"
            /\ rfPc' = "done"
       ELSE /\ rfPc' = IF rfCalls + 1 > rfFile.lines THEN "close" ELSE "loop"
            /\ UNCHANGED rfThrown
    /\ UNCHANGED <<rfMethod, rfFile, rfReader>>

\* readFile: reader.close() after the loop.
ReadFileClose ==
    /\ rfMethod = "readFile"
    /\ rfPc = "close"
    /\ rfReader' = "closed"
    /\ rfPc' = "done"
    /\ UNCHANGED <<rfMethod, rfFile, rfCalls, rfThrown>>

\* processFile: if (!file.exists()) throw new FileNotFoundException(...);
\* then the resource of the try statement is opened.
ProcessFileOpen ==
    /\ rfMethod = "processFile"
    /\ rfPc = "start"
    /\ IF rfFile.exists
       THEN /\ rfReader' = "open"
            /\ rfPc' = "loop"
            /\ UNCHANGED rfThrown
       ELSE /\ rfThrown' = "FileNotFoundException"
            /\ rfPc' = "done"
            /\ UNCHANGED rfReader
    /\ UNCHANGED <<rfMethod, rfFile, rfCalls>>

\* processFile: the loop inside try (BufferedReader reader = ...); the try
\* statement closes the reader before an IOException leaves the method.
ProcessFileLine ==
    /\ rfMethod = "processFile"
    /\ rfPc = "loop"
    /\ rfCalls' = rfCalls + 1
    /\ IF rfFile.failAt = rfCalls + 1
       THEN /\ rfThrown' = "IOException"
            /\ rfReader' = "closed"
            /\ rfPc' = "done"
       ELSE /\ rfPc' = IF rfCalls + 1 > rfFile.lines THEN "close" ELSE "loop"
            /\ UNCHANGED <<rfThrown, rfReader>>
    /\ UNCHANGED <<rfMethod, rfFile>>

\* processFile: the end of the try block closes the reader.
ProcessFileClose ==
    /\ rfMethod = "processFile"
    /\ rfPc = "close"
    /\ rfReader' = "closed"
    /\ rfPc' = "done"
    /\ UNCHANGED <<rfMethod, rfFile, rfCalls, rfThrown>>

NextReader ==
    \/ ReadFileOpen /\ UNCHANGED <<concVars, stVars, vaVars, feVars, xbVars, rdVars, fmVars, skVars, pfVars, urVars, pmVars>>
    \/ ReadFileLine /\ UNCHANGED <<concVars, stVars, vaVars, feVars, xbVars, rdVars, fmVars, skVars, pfVars, urVars, pmVars>>
    \/ ReadFileClose /\ UNCHANGED <<concVars, stVars, vaVars, feVars, xbVars, rdVars, fmVars, skVars, pfVars, urVars, pmVars>>
    \/ ProcessFileOpen /\ UNCHANGED <<concVars, stVars, vaVars, feVars, xbVars, rdVars, fmVars, skVars, pfVars, urVars, pmVars>>
    \/ ProcessFileLine /\ UNCHANGED <<concVars, stVars, vaVars, feVars, xbVars, rdVars, fmVars, skVars, pfVars, urVars, pmVars>>
    \/ ProcessFileClose /\ UNCHANGED <<concVars, stVars, vaVars, feVars, xbVars, rdVars, fmVars, skVars, pfVars, urVars, pmVars>>

(***************************************************************************)
(* CreditCard and PayPal                                                   *)
(***************************************************************************)
MaxPayments == 2

PaymentMethods == {"CreditCard", "PayPal"}

\* Amounts makePayment is tried with, and balances the constructors are given.
PaymentAmounts == {Num(-50), Num(0), Num(100), Num(2000), NaN, PosInf, NegInf}
PaymentBalances == {Num(1000), Num(0), Num(-100)}

\* new CreditCard(cardNumber, initialBalance) and new PayPal(email, initialBalance).
InitPayments(cardBalance, payPalBalance) ==
    /\ pmBalance = [w \in PaymentMethods |->
                       IF w = "CreditCard" THEN cardBalance ELSE payPalBalance]
    /\ pmLast = [who |-> "none", amount |-> Num(0), before |-> Num(0), ret |-> FALSE]
    /\ pmOps = 0

\* makePayment(amount) of either class:
\* if (amount <= balance) { balance -= amount; return true; } return false;
MakePayment(who, amount) ==
    /\ pmOps < MaxPayments
    /\ pmOps' = pmOps + 1
    /\ IF DLe(amount, pmBalance[who])
       THEN /\ pmBalance' = [pmBalance EXCEPT ![who] = DSub(pmBalance[who], amount)]
            /\ pmLast' = [who |-> who, amount |-> amount, before |-> pmBalance[who],
                          ret |-> TRUE]
       ELSE /\ pmLast' = [who |-> who, amount |-> amount, before |-> pmBalance[who],
                          ret |-> FALSE]
            /\ UNCHANGED pmBalance

\* CreditCard.makePayment(amount)
CreditCardMakePayment(amount) == MakePayment("CreditCard", amount)

\* PayPal.makePayment(amount)
PayPalMakePayment(amount) == MakePayment("PayPal", amount)

NextPayments ==
    \/ \E a \in PaymentAmounts :
          CreditCardMakePayment(a) /\ UNCHANGED <<concVars, stVars, vaVars, feVars, xbVars, rdVars, fmVars, skVars, pfVars, urVars, rfVars>>
    \/ \E a \in PaymentAmounts :
          PayPalMakePayment(a) /\ UNCHANGED <<concVars, stVars, vaVars, feVars, xbVars, rdVars, fmVars, skVars, pfVars, urVars, rfVars>>

\* The operations that take money out of an account: the two makePayment
\* methods and withdraw of the exception exercise.
NextMoneyOut ==
    \/ NextPayments
    \/ NextExercise

(***************************************************************************)
(* Specifications                                                          *)
(***************************************************************************)
\* The samples with threads, the homepage and the encapsulated account as the
\* notes run them.
InitConc ==
    /\ InitFeatures(FeatureList)
    /\ InitCounter
    /\ InitBank(SampleAmounts)
    /\ InitBuffer(SampleRoles, BufferCalls)
    /\ InitPrinter
    /\ InitAccount(Str_123, Str_John, Num(1000))

\* The single-threaded samples before their calls.
InitSeq ==
    /\ InitStudent(1, Str_Alice, 20, Num(3))
    /\ InitValidate(15)
    /\ InitFinally(Str_123)
    /\ InitExercise
    /\ InitDedup(WithDuplicates)
    /\ InitFindMax(ArrayOf(<<>>))
    /\ InitStack
    /\ InitPerf(SampleNumbers)
    /\ InitRepo
    /\ InitReader("processFile", TestTxt)
    /\ InitPayments(Num(1000), Num(500))

\* The site as shipped: the hard-coded FeatureList.
Init == InitConc /\ InitSeq

Next == NextFeatures

Spec == Init /\ [][Next]_vars

\* Feature and HomepageFeatures as functions of their input: any list of records.
InitAnyList ==
    /\ \E list \in SeqsUpTo(PropsUniverse, MaxLen) : InitFeatures(list)
    /\ InitCounter
    /\ InitBank(SampleAmounts) /\ InitBuffer(SampleRoles, BufferCalls) /\ InitPrinter
    /\ InitAccount(Str_123, Str_John, Num(1000))
    /\ InitSeq

SpecFeature == InitAnyList /\ [][Next]_vars

\* The synchronization example of Main.main.
SpecCounter == Init /\ [][NextCounter]_vars

\* The bank account example of Main.main, for any amounts the two depositors use.
InitAnyAmounts ==
    /\ InitFeatures(FeatureList)
    /\ InitCounter
    /\ \E a1 \in DepositAmounts, a2 \in DepositAmounts : InitBank(<<a1, a2>>)
    /\ InitBuffer(SampleRoles, BufferCalls) /\ InitPrinter
    /\ InitAccount(Str_123, Str_John, Num(1000))
    /\ InitSeq

SpecBank == InitAnyAmounts /\ [][NextBank]_vars

\* A BankAccount with a non-negative initial balance and two threads, each
\* calling deposit() or withdraw() with some amount.
InitAnyBankOps ==
    /\ InitFeatures(FeatureList)
    /\ InitCounter
    /\ \E b \in BankInitialBalances, o1, o2 \in {"deposit", "withdraw"}, a1, a2 \in BankOpAmounts :
          InitBankOps(b, <<o1, o2>>, <<a1, a2>>)
    /\ InitBuffer(SampleRoles, BufferCalls) /\ InitPrinter
    /\ InitAccount(Str_123, Str_John, Num(1000))
    /\ InitSeq

SpecBankOps == InitAnyBankOps /\ [][NextBankOps]_vars

\* The producer-consumer example of Main.main: one producer, one consumer.
SpecBuffer == Init /\ [][NextBuffer]_vars

\* The same example under fair scheduling.
FairSpecBuffer == Init /\ [][NextBuffer]_vars /\ BufferFairness

\* The SharedBuffer shared by n producers and n consumers.
InitManyThreads ==
    /\ InitFeatures(FeatureList)
    /\ InitCounter
    /\ InitBank(SampleAmounts)
    /\ \E n \in 1..(MaxBufThreads \div 2), calls \in 1..MaxManyCalls : InitBuffer(ManyRoles(n), calls)
    /\ InitPrinter
    /\ InitAccount(Str_123, Str_John, Num(1000))
    /\ InitSeq

SpecBufferMany == InitManyThreads /\ [][NextBuffer]_vars

\* n producers and n consumers making one call each, with interrupt() calls on
\* the threads.
InitInterrupted ==
    /\ InitFeatures(FeatureList)
    /\ InitCounter
    /\ InitBank(SampleAmounts)
    /\ \E n \in 1..(MaxBufThreads \div 2) : InitBuffer(ManyRoles(n), 1)
    /\ InitPrinter
    /\ InitAccount(Str_123, Str_John, Num(1000))
    /\ InitSeq

SpecBufferInterrupted == InitInterrupted /\ [][NextBufferInterrupted]_vars

\* Exercise 1: one thread calling printOdd(), one calling printEven().
SpecPrinter == Init /\ [][NextPrinter]_vars

\* The encapsulated BankAccount, for any initial balance and any calls.
InitAnyAccount ==
    /\ InitFeatures(FeatureList)
    /\ InitCounter
    /\ InitBank(SampleAmounts)
    /\ InitBuffer(SampleRoles, BufferCalls)
    /\ InitPrinter
    /\ \E b \in AccountInitialBalances : InitAccount(Str_123, Str_John, b)
    /\ InitSeq

SpecAccount == InitAnyAccount /\ [][NextAccount]_vars

\* A Student built from any arguments, then any setter calls.
InitAnyStudent ==
    /\ InitConc
    /\ \E n \in StudentNames, a \in StudentAges, g \in StudentGpas : InitStudent(1, n, a, g)
    /\ InitValidate(15)
    /\ InitFinally(Str_123)
    /\ InitExercise
    /\ InitDedup(WithDuplicates)
    /\ InitFindMax(ArrayOf(<<>>))
    /\ InitStack
    /\ InitPerf(SampleNumbers)
    /\ InitRepo
    /\ InitReader("processFile", TestTxt)
    /\ InitPayments(Num(1000), Num(500))

SpecStudent == InitAnyStudent /\ [][NextStudent]_vars

\* validateAge called with any age.
InitAnyAge ==
    /\ InitConc
    /\ InitStudent(1, Str_Alice, 20, Num(3))
    /\ \E age \in ValidateAges : InitValidate(age)
    /\ InitFinally(Str_123)
    /\ InitExercise
    /\ InitDedup(WithDuplicates)
    /\ InitFindMax(ArrayOf(<<>>))
    /\ InitStack
    /\ InitPerf(SampleNumbers)
    /\ InitRepo
    /\ InitReader("processFile", TestTxt)
    /\ InitPayments(Num(1000), Num(500))

SpecValidate == InitAnyAge /\ [][NextValidate]_vars

\* finallyExample run with any line, or none, on System.in.
InitAnyInput ==
    /\ InitConc
    /\ InitStudent(1, Str_Alice, 20, Num(3))
    /\ InitValidate(15)
    /\ \E input \in FinallyInputs : InitFinally(input)
    /\ InitExercise
    /\ InitDedup(WithDuplicates)
    /\ InitFindMax(ArrayOf(<<>>))
    /\ InitStack
    /\ InitPerf(SampleNumbers)
    /\ InitRepo
    /\ InitReader("processFile", TestTxt)
    /\ InitPayments(Num(1000), Num(500))

SpecFinally == InitAnyInput /\ [][NextFinally]_vars

\* The BankAccount of the exception exercise under any withdraw calls.
SpecExercise == Init /\ [][NextExercise]_vars

\* removeDuplicates called with any list, then with its own result.
InitAnyDupList ==
    /\ InitConc
    /\ InitStudent(1, Str_Alice, 20, Num(3))
    /\ InitValidate(15)
    /\ InitFinally(Str_123)
    /\ InitExercise
    /\ \E list \in DedupLists : InitDedup(list)
    /\ InitFindMax(ArrayOf(<<>>))
    /\ InitStack
    /\ InitPerf(SampleNumbers)
    /\ InitRepo
    /\ InitReader("processFile", TestTxt)
    /\ InitPayments(Num(1000), Num(500))

SpecDedup == InitAnyDupList /\ [][NextDedup]_vars

\* findMax called with any array.
InitAnyArray ==
    /\ InitConc
    /\ InitStudent(1, Str_Alice, 20, Num(3))
    /\ InitValidate(15)
    /\ InitFinally(Str_123)
    /\ InitExercise
    /\ InitDedup(WithDuplicates)
    /\ \E array \in FindMaxArrays : InitFindMax(array)
    /\ InitStack
    /\ InitPerf(SampleNumbers)
    /\ InitRepo
    /\ InitReader("processFile", TestTxt)
    /\ InitPayments(Num(1000), Num(500))

SpecFindMax == InitAnyArray /\ [][NextFindMax]_vars

\* A new Stack under any calls.
SpecStack == Init /\ [][NextStack]_vars

\* performanceComparison's two sums over any list.
InitAnyNumbers ==
    /\ InitConc
    /\ InitStudent(1, Str_Alice, 20, Num(3))
    /\ InitValidate(15)
    /\ InitFinally(Str_123)
    /\ InitExercise
    /\ InitDedup(WithDuplicates)
    /\ InitFindMax(ArrayOf(<<>>))
    /\ InitStack
    /\ \E list \in PerfLists : InitPerf(list)
    /\ InitRepo
    /\ InitReader("processFile", TestTxt)
    /\ InitPayments(Num(1000), Num(500))

SpecPerf == InitAnyNumbers /\ [][NextPerf]_vars


\* A new UserRepository under any setId, save and delete calls.
SpecRepo == Init /\ [][NextRepo]_vars

\* readFile or processFile called on any file.
InitAnyFile ==
    /\ InitConc
    /\ InitStudent(1, Str_Alice, 20, Num(3))
    /\ InitValidate(15)
    /\ InitFinally(Str_123)
    /\ InitExercise
    /\ InitDedup(WithDuplicates)
    /\ InitFindMax(ArrayOf(<<>>))
    /\ InitStack
    /\ InitPerf(SampleNumbers)
    /\ InitRepo
    /\ \E method \in ReaderMethods, file \in Files : InitReader(method, file)
    /\ InitPayments(Num(1000), Num(500))

SpecReader == InitAnyFile /\ [][NextReader]_vars

\* A CreditCard, a PayPal account and the exercise's BankAccount under any
\* payments and withdrawals.
InitAnyPayments ==
    /\ InitConc
    /\ InitStudent(1, Str_Alice, 20, Num(3))
    /\ InitValidate(15)
    /\ InitFinally(Str_123)
    /\ InitExercise
    /\ InitDedup(WithDuplicates)
    /\ InitFindMax(ArrayOf(<<>>))
    /\ InitStack
    /\ InitPerf(SampleNumbers)
    /\ InitRepo
    /\ InitReader("processFile", TestTxt)
    /\ \E c \in PaymentBalances, p \in PaymentBalances : InitPayments(c, p)

SpecMoneyOut == InitAnyPayments /\ [][NextMoneyOut]_vars

(***************************************************************************)
(* Claims about HomepageFeatures                                           *)
(***************************************************************************)
HasAllProps(r) ==
    /\ DOMAIN r = {"title", "Svg", "description"}
    /\ r.title # Undefined
    /\ r.Svg # Undefined
    /\ r.description # Undefined

\* C1: a completed render shows exactly one card per record of the list, in list
\* order: the row has as many cards as the list has records and the i-th card
\* carries the icon, title and description of the i-th record; while a render is
\* in progress the cards built so far are those of the first records, in order.
C1_OneCardPerRecordInOrder ==
    /\ Len(work) <= Len(featureList)
    /\ \A i \in 1..Len(work) :
          /\ work[i].svg = featureList[i].Svg
          /\ featureList[i].title # Undefined => work[i].heading = featureList[i].title
          /\ featureList[i].description # Undefined => work[i].p = featureList[i].description
    /\ mounted =>
          /\ Len(dom) = Len(featureList)
          /\ \A i \in 1..Len(dom) :
                /\ dom[i].svg = featureList[i].Svg
                /\ featureList[i].title # Undefined => dom[i].heading = featureList[i].title
                /\ featureList[i].description # Undefined =>
                      dom[i].p = featureList[i].description

C1_Witness ==
    /\ mounted
    /\ phase = "idle"
    /\ Len(featureList) = 3
    /\ Len(dom) = 3
    /\ dom[1] # dom[2]
    /\ dom[2] # dom[3]
    /\ \A i \in 1..3 : HasAllProps(featureList[i])

\* C2: in every reachable state FeatureList holds exactly three records and each
\* record has a title, an Svg and a description.
C2_ThreeCompleteRecords ==
    /\ Len(featureList) = 3
    /\ \A i \in 1..Len(featureList) : HasAllProps(featureList[i])

C2_Witness ==
    /\ renders >= 2
    /\ ~mounted
    /\ phase = "idle"

\* C3: no step of a render, mount or unmount changes FeatureList, and once a
\* render has produced a row every later render produces the same row.
C3_RenderIsPure ==
    [][/\ featureList' = featureList
       /\ lastRow # <<>> => lastRow' = lastRow]_vars

C3_Witness ==
    /\ renders >= 3
    /\ mounted
    /\ lastRow = dom
    /\ Len(dom) = 3

\* C4 as stated: no card is ever produced for a record that lacks title, Svg or
\* description (the render ends in an error instead), and an error only comes
\* from such a record.
C4_AnyMissingPropThrows ==
    /\ \A i \in 1..Len(work) : HasAllProps(elems[i].props)
    /\ phase = "error" => ~HasAllProps(elems[idx + 1].props)

\* C4 amended: a render ends in an error exactly at a record whose Svg is
\* missing, and no card is produced for such a record; a record that lacks only
\* its title or description gets a card with an empty heading or paragraph.
C4_MissingSvgThrows ==
    /\ \A i \in 1..Len(work) :
          /\ elems[i].props.Svg # Undefined
          /\ elems[i].props.title = Undefined => work[i].heading = ""
          /\ elems[i].props.description = Undefined => work[i].p = ""
    /\ phase = "error" =>
          /\ idx < Len(elems)
          /\ Len(work) = idx
          /\ elems[idx + 1].props.Svg = Undefined
    /\ mounted => \A i \in 1..Len(featureList) : featureList[i].Svg # Undefined

C4_Witness ==
    /\ phase = "error"
    /\ Len(work) = 1
    /\ elems[1].props.title = Undefined
    /\ elems[2].props.Svg = Undefined

(***************************************************************************)
(* Claims about the multithreading samples                                 *)
(***************************************************************************)
CounterDone(t) == cj[t] + (IF cpc[t] = "exit" THEN 1 ELSE 0)

RECURSIVE SumUpTo(_, _)
SumUpTo(f, n) == IF n = 0 THEN 0 ELSE f[n] + SumUpTo(f, n - 1)

\* C5: no update of the counter is lost: count always equals the number of
\* increments completed so far, and once main has joined every thread the
\* value it reads is the total number of increment calls.
C5_NoLostUpdate ==
    /\ count = SumUpTo([t \in CounterThreads |-> CounterDone(t)], NCounterThreads)
    /\ cMain = "done" => cFinal = NCounterThreads * IncrementCalls

C5_Witness ==
    /\ cMain = "done"
    /\ cFinal = NCounterThreads * IncrementCalls
    /\ \A t \in CounterThreads : cpc[t] = "terminated"

\* The part of a deposit amount that deposit() adds: nothing unless amount > 0.
Deposited(a) == IF a.k = "num" /\ a.v > 0 THEN a.v ELSE 0

DepositsDone(t) == tbi[t] + (IF tbpc[t] \in {"exit", "sleep"} THEN 1 ELSE 0)

\* C9: the balance always equals the initial balance plus the positive amounts
\* of the deposits completed so far (a deposit of an amount that is not
\* positive changes nothing), so after both joins main reads the initial
\* balance plus five times each depositor's positive amount: 2250 in the sample.
C9_DepositsAddUp ==
    /\ tbBalance = Num(InitialBalance + DepositsDone(1) * Deposited(tbAmt[1])
                                         + DepositsDone(2) * Deposited(tbAmt[2]))
    /\ tbMain = "done" =>
          tbFinal = Num(InitialBalance + DepositCalls * Deposited(tbAmt[1])
                                          + DepositCalls * Deposited(tbAmt[2]))
    /\ (tbMain = "done" /\ tbAmt = SampleAmounts) => tbFinal = Num(2250)

C9_Witness ==
    /\ tbMain = "done"
    /\ tbAmt = SampleAmounts
    /\ tbFinal = Num(2250)

\* The calls of one kind that have returned, in order.
LogOf(op) == SelectSeq(bLog, LAMBDA e : e.op = op)

\* C6: with one producer and one consumer the k-th get() returns the k-th value
\* put (the values 1, 2, ... in order), no get() returns a value that was not
\* put, and when both threads have ended every value put has been returned once.
C6_EveryValueOnceInOrder ==
    /\ Len(LogOf("get")) <= Len(LogOf("put"))
    /\ \A k \in 1..Len(LogOf("get")) :
          /\ LogOf("get")[k].val = k
          /\ LogOf("get")[k].val = LogOf("put")[k].val
    /\ bMain = "done" =>
          /\ Len(LogOf("put")) = BufferCalls
          /\ Len(LogOf("get")) = BufferCalls
          /\ [k \in 1..BufferCalls |-> LogOf("get")[k].val] = <<1, 2, 3, 4, 5>>

C6_Witness ==
    /\ bMain = "done"
    /\ Len(bLog) = 2 * BufferCalls
    /\ bLog[2 * BufferCalls] = [op |-> "get", val |-> 5]

\* C7: put() writes data only while available is false, get() takes it only
\* while available is true, the returned calls alternate put, get, put, ...
\* and the puts returned exceed the gets returned by 0 or 1.
C7_PutGetAlternate ==
    /\ \A t \in BufThreads :
          bpc[t] = "act" => (available <=> bRole[t] = "consumer")
    /\ \A k \in 1..Len(bLog) : bLog[k].op = (IF k % 2 = 1 THEN "put" ELSE "get")
    /\ Len(LogOf("put")) - Len(LogOf("get")) \in {0, 1}

C7_Witness ==
    /\ Len(bLog) >= 4
    /\ \E t \in BufThreads : bpc[t] = "waiting" /\ bRole[t] = "producer"
    /\ \E t \in BufThreads : bpc[t] = "act" /\ bRole[t] = "consumer"

\* C8: the lines printed are 1, 2, 3, ... without gap or repeat; the odd
\* numbers are printed by the thread calling printOdd() and the even numbers by
\* the thread calling printEven(), so the two threads take turns, printOdd() first.
C8_OddEvenAlternate ==
    /\ \A k \in 1..Len(printed) :
          /\ printed[k].n = k
          /\ printed[k].by = (IF k % 2 = 1 THEN OddThread ELSE EvenThread)
          /\ printed[k].by = OddThread <=> printed[k].n % 2 = 1
    /\ number = Len(printed) + 1

C8_Witness ==
    /\ Len(printed) = 2 * MaxPrints
    /\ printed[1] = [by |-> OddThread, n |-> 1]
    /\ printed[2] = [by |-> EvenThread, n |-> 2]
    /\ printed[3] = [by |-> OddThread, n |-> 3]

(***************************************************************************)
(* Claims about the encapsulation sample                                   *)
(***************************************************************************)
AccountUnchanged == AccountFields = acLast.before

OnlyBalanceChanged ==
    /\ accountNumber = acLast.before.accountNumber
    /\ accountHolder = acLast.before.accountHolder

\* C10 as stated: withdraw(amount) returns false and changes nothing when amount
\* exceeds the balance or amount <= 0, and otherwise returns true and takes
\* amount off the balance; deposit(amount) returns false and changes nothing
\* when amount <= 0, and otherwise returns true and adds amount to the balance.
C10_FailsOnlyWhenStated ==
    /\ acLast.op = "withdraw" =>
          IF DGt(acLast.amount, acLast.before.balance) \/ DLe(acLast.amount, Num(0))
          THEN ~acLast.ret /\ AccountUnchanged
          ELSE /\ acLast.ret
               /\ balance = DSub(acLast.before.balance, acLast.amount)
               /\ OnlyBalanceChanged
    /\ acLast.op = "deposit" =>
          IF DLe(acLast.amount, Num(0))
          THEN ~acLast.ret /\ AccountUnchanged
          ELSE /\ acLast.ret
               /\ balance = DAdd(acLast.before.balance, acLast.amount)
               /\ OnlyBalanceChanged

\* C10 amended: withdraw(amount) returns false and changes nothing when amount
\* exceeds the balance, amount <= 0, or the amount or the balance is NaN, and
\* otherwise returns true and takes amount off the balance; deposit(amount)
\* returns false and changes nothing when amount <= 0 or amount is NaN, and
\* otherwise returns true and adds amount to the balance.
C10_FailsAlsoOnNaN ==
    /\ acLast.op = "withdraw" =>
          IF \/ DGt(acLast.amount, acLast.before.balance)
             \/ DLe(acLast.amount, Num(0))
             \/ acLast.amount = NaN
             \/ acLast.before.balance = NaN
          THEN ~acLast.ret /\ AccountUnchanged
          ELSE /\ acLast.ret
               /\ balance = DSub(acLast.before.balance, acLast.amount)
               /\ OnlyBalanceChanged
    /\ acLast.op = "deposit" =>
          IF DLe(acLast.amount, Num(0)) \/ acLast.amount = NaN
          THEN ~acLast.ret /\ AccountUnchanged
          ELSE /\ acLast.ret
               /\ balance = DAdd(acLast.before.balance, acLast.amount)
               /\ OnlyBalanceChanged

\* The sample's last withdrawal: 2000 from a balance of 1300 fails.
C10_Witness ==
    /\ acLast.op = "withdraw"
    /\ acLast.amount = Num(2000)
    /\ acLast.before.balance = Num(1300)
    /\ ~acLast.ret
    /\ balance = Num(1300)

(***************************************************************************)
(* Claims about the single-threaded samples                                *)
(***************************************************************************)
\* C11: a Student setter called with an invalid argument (setAge with a <= 0
\* or a >= 150, setGpa with g < 0 or g > 4, setName with null or a blank
\* string) leaves every field as it was; any other call leaves the fields it
\* does not name as they were, and stores an in-range argument (the name
\* trimmed) in the field it names.
C11_SettersValidate ==
    LET b == stLast.before
        now == StudentFields
        arg == stLast.arg
    IN  /\ stLast.op = "setAge" =>
              IF arg <= 0 \/ arg >= 150
              THEN now = b
              ELSE now = [b EXCEPT !.age = arg]
        /\ stLast.op = "setGpa" =>
              IF DLt(arg, Num(0)) \/ DGt(arg, Num(4))
              THEN now = b
              ELSE /\ now = [b EXCEPT !.gpa = now.gpa]
                   /\ (DGe(arg, Num(0)) /\ DLe(arg, Num(4))) => now.gpa = arg
        /\ stLast.op = "setName" =>
              IF arg = Null \/ \A i \in 1..Len(arg) : arg[i] = " "
              THEN now = b
              ELSE now = [b EXCEPT !.name = Trim(arg)]

\* setAge(149) has changed the age, then setName("  ") has been refused on a
\* student named Alice.
C11_Witness ==
    /\ stOps = 2
    /\ stLast.op = "setName"
    /\ stLast.arg = Str_Blank
    /\ stName = Str_Alice
    /\ stLast.before.age = 149
    /\ stAge = 149

\* C12: validateAge(age) returns normally exactly when 18 <= age <= 150;
\* otherwise it throws InvalidAgeException with 'Age cannot be negative' for
\* age < 0, 'Age cannot be greater than 150' for age > 150 and 'Age must be 18
\* or above' for 0 <= age < 18.
C12_ValidateAgeCases ==
    vaResult # "pending" =>
        /\ vaResult = "returned" <=> (18 <= vaAge /\ vaAge <= 150)
        /\ vaAge < 0 => vaResult = "Age cannot be negative"
        /\ vaAge > 150 => vaResult = "Age cannot be greater than 150"
        /\ (0 <= vaAge /\ vaAge < 18) => vaResult = "Age must be 18 or above"

\* validateAge(-1) has thrown.
C12_Witness ==
    /\ vaAge = -1
    /\ vaResult = "Age cannot be negative"

\* C13: on every path out of finallyExample's try block (normal completion, a
\* NumberFormatException caught, any other exception propagating) the finally
\* block has run exactly once and the scanner is closed when the method is
\* left; the finally block never runs twice.
C13_FinallyRunsOnce ==
    /\ feFinally <= 1
    /\ fePc \in {"returned", "thrown"} =>
          /\ feFinally = 1
          /\ feScanner = "closed"
          /\ feOut[Len(feOut)] = "Finally block always executes"
    /\ fePc = "thrown" <=> (fePending # "none" /\ feFinally = 1)

\* nextLine() found no line: the NoSuchElementException is not caught and
\* leaves the method after the finally block.
C13_Witness ==
    /\ fePc = "thrown"
    /\ fePending = "NoSuchElementException"
    /\ feFinally = 1
    /\ feScanner = "closed"

\* C14: the exercise's withdraw(amount) throws InsufficientFundsException
\* carrying amount when amount > balance and then leaves balance unchanged;
\* otherwise it throws nothing and balance becomes balance - amount.
C14_ThrowsOrSubtracts ==
    xbOps > 0 =>
        IF DGt(xbLast.amount, xbLast.before)
        THEN /\ xbLast.thrown = InsufficientFundsException(xbLast.amount)
             /\ xbBalance = xbLast.before
        ELSE /\ xbLast.thrown = NoException
             /\ xbBalance = DSub(xbLast.before, xbLast.amount)

\* withdraw(-100) has raised the balance to 100, withdraw(50) has taken 50 and
\* withdraw(200) has thrown.
C14_Witness ==
    /\ xbOps = 3
    /\ xbLast.before = Num(50)
    /\ xbLast = [amount |-> Num(200), before |-> Num(50),
                 thrown |-> InsufficientFundsException(Num(200))]
    /\ xbBalance = Num(50)

\* The position of the first occurrence of e in seq.
FirstIndex(seq, e) == Min({i \in DOMAIN seq : seq[i] = e})

\* C15: removeDuplicates(list) returns a list that holds every distinct
\* element of list once, in the order of first occurrence (so ['A', 'B', 'A',
\* 'C', 'B'] gives ['A', 'B', 'C']); the input list is not modified; applying
\* it to its own result returns an equal list.
C15_DistinctInFirstOccurrenceOrder ==
    rdPc # "start" =>
        /\ rdList = rdOrig
        /\ Range(rdOut) = Range(rdOrig)
        /\ \A i, j \in DOMAIN rdOut : rdOut[i] = rdOut[j] => i = j
        /\ \A i, j \in DOMAIN rdOut :
              i < j => FirstIndex(rdOrig, rdOut[i]) < FirstIndex(rdOrig, rdOut[j])
        /\ rdOrig = WithDuplicates => rdOut = <<"A", "B", "C">>
        /\ rdPc = "twice" => rdOut2 = rdOut

\* The usage example, and the call repeated on its result.
C15_Witness ==
    /\ rdPc = "twice"
    /\ rdOrig = WithDuplicates
    /\ rdOut = <<"A", "B", "C">>
    /\ rdOut2 = <<"A", "B", "C">>

\* The first element of items (none of them null) that no element exceeds.
FirstMax(items) ==
    LET top == CHOOSE k \in {items[i].key : i \in DOMAIN items} :
                   \A i \in DOMAIN items : items[i].key <= k
    IN  items[FirstIndex([i \in DOMAIN items |-> items[i].key], top)]

\* C16 as stated: findMax(array) returns null when array is null or empty and
\* otherwise returns an element that is >= every element, the first such when
\* the maximum occurs more than once; the array is not modified.
C16_ReturnsMaxOfAnyArray ==
    fmPc = "done" =>
        /\ fmArray = fmOrig
        /\ IF fmOrig.null \/ fmOrig.elems = <<>>
           THEN fmResult = Returned(NullRef)
           ELSE /\ fmResult.kind = "value"
                /\ fmResult.val \in Range(fmOrig.elems)
                /\ NullRef \notin Range(fmOrig.elems) => fmResult.val = FirstMax(fmOrig.elems)

\* C16 amended: the maximum is returned for arrays without a null element; an
\* array that holds a null element gives null when that is its only element
\* and NullPointerException otherwise.
C16_ReturnsMaxWithoutNulls ==
    fmPc = "done" =>
        /\ fmArray = fmOrig
        /\ IF fmOrig.null \/ fmOrig.elems = <<>>
           THEN fmResult = Returned(NullRef)
           ELSE IF NullRef \notin Range(fmOrig.elems)
           THEN fmResult = Returned(FirstMax(fmOrig.elems))
           ELSE IF Len(fmOrig.elems) = 1
           THEN fmResult = Returned(NullRef)
           ELSE fmResult = NullPointerException

\* The maximum occurs twice: the first of the two is returned.
C16_Witness ==
    /\ fmPc = "done"
    /\ fmOrig = ArrayOf(<<Elem(1, "a"), Elem(2, "b"), Elem(2, "a")>>)
    /\ fmResult = Returned(Elem(2, "b"))

\* Pushes minus successful pops among the first k calls of the log.
StackDepth(k) ==
    Cardinality({j \in 1..k : skLog[j].op = "push"})
    - Cardinality({j \in 1..k : skLog[j].op = "pop" /\ skLog[j].ret # EmptyStackException})

\* The contents of the stack after the first k calls.
StackAfter(k) == IF k = 0 THEN <<>> ELSE skLog[k].after

\* The most recently pushed element that is not yet popped before call k: the
\* argument of the last push that brought the depth to its value before k.
StackTop(k) ==
    LET j == CHOOSE i \in 1..(k - 1) :
                 /\ skLog[i].op = "push"
                 /\ StackDepth(i) = StackDepth(k - 1)
                 /\ \A h \in (i + 1)..(k - 1) :
                       ~(skLog[h].op = "push" /\ StackDepth(h) = StackDepth(k - 1))
    IN  skLog[j].arg

\* C17: the Stack is last-in first-out.  pop returns the most recently pushed
\* element not yet popped, peek returns it and changes nothing, push(x)
\* followed by pop() returns x and restores the contents, isEmpty is true
\* exactly when pushes and successful pops are equal in number, and pop or
\* peek on an empty stack throws EmptyStackException and leaves it empty.
C17_StackIsLifo ==
    /\ elements = StackAfter(Len(skLog))
    /\ \A k \in DOMAIN skLog :
          LET c == skLog[k]
              empty == StackDepth(k - 1) = 0
          IN  /\ c.op = "pop" =>
                    IF empty
                    THEN c.ret = EmptyStackException /\ c.after = <<>> /\ StackAfter(k - 1) = <<>>
                    ELSE c.ret = StackTop(k)
              /\ c.op = "peek" =>
                    /\ c.after = StackAfter(k - 1)
                    /\ IF empty
                       THEN c.ret = EmptyStackException /\ c.after = <<>>
                       ELSE c.ret = StackTop(k)
              /\ (c.op = "pop" /\ k > 1 /\ skLog[k - 1].op = "push") =>
                    /\ c.ret = skLog[k - 1].arg
                    /\ c.after = StackAfter(k - 2)
              /\ c.op = "isEmpty" =>
                    /\ c.ret = (IF empty THEN "true" ELSE "false")
                    /\ c.after = StackAfter(k - 1)

\* push(a), push(b), pop() gave b, and peek() gave a.
C17_Witness ==
    /\ Len(skLog) = 4
    /\ skLog[1].op = "push" /\ skLog[1].arg = "a"
    /\ skLog[2].op = "push" /\ skLog[2].arg = "b"
    /\ skLog[3].op = "pop" /\ skLog[3].ret = "b"
    /\ skLog[4].op = "peek" /\ skLog[4].ret = "a"
    /\ elements = <<"a">>

\* The even elements of a list, in order.
Evens(list) == SelectSeq(list, LAMBDA n : n % 2 = 0)

\* The exact sum of a list reduced modulo 2^32 to an int, computed on the
\* 16-bit halves of the elements so that no step leaves the int range.
WrappedSum(list) ==
    LET hi == SumUpTo([i \in DOMAIN list |-> (list[i] - (list[i] % 65536)) \div 65536], Len(list))
        lo == SumUpTo([i \in DOMAIN list |-> list[i] % 65536], Len(list))
        h == hi + ((lo - (lo % 65536)) \div 65536)
    IN  (((h + 32768) % 65536) - 32768) * 65536 + (lo % 65536)

\* C18: performanceComparison's traditional loop and its stream pipeline give
\* the same int for the same list, also when the exact sum of the even
\* elements is outside the int range: both are that sum modulo 2^32.
C18_LoopAndStreamAgree ==
    /\ pfPc \in {"stream", "done"} => sum1 = WrappedSum(Evens(numbers))
    /\ pfPc = "done" =>
          /\ sum2 = WrappedSum(Evens(numbers))
          /\ sum1 = sum2
          /\ pfEqual = "true"

\* Two elements whose sum, 4294967292, is outside the int range: both sums
\* have wrapped to -4.
C18_Witness ==
    /\ pfPc = "done"
    /\ numbers = <<MaxInt - 1, MaxInt - 1>>
    /\ sum1 = -4
    /\ sum2 = -4

(***************************************************************************)
(* Claims about the SharedBuffer under many threads and fair scheduling    *)
(***************************************************************************)
\* The threads that have not made all their calls.
Unfinished == {t \in BufThreads : bRole[t] # "none" /\ bpc[t] # "terminated"}

\* Every unfinished thread is blocked in wait(): none of them will call notify().
AllWaiting ==
    /\ Unfinished # {}
    /\ \A t \in Unfinished : bpc[t] = "waiting" /\ t \in bWait

\* C19: with as many puts as gets in total, no reachable state of the
\* SharedBuffer has every unfinished thread blocked in wait(), whatever the
\* number of producers and consumers.
C19_NeverAllWaiting == ~AllWaiting

\* Two producers and two consumers, one call each: one put and one get have
\* been made, and the other producer and the other consumer both wait.
C19_Witness ==
    /\ AllWaiting
    /\ bRole = ManyRoles(2)
    /\ bCalls = 1
    /\ Len(bLog) = 2
    /\ Cardinality(Unfinished) = 2

\* The producer and the consumer of the sample are both blocked in wait().
BothWaiting == \A t \in {1, 2} : bpc[t] = "waiting" /\ t \in bWait

\* C20: in the sample (one producer making 5 puts, one consumer making 5
\* gets) under fair scheduling, no interleaving leaves the producer and the
\* consumer both waiting, both threads terminate and main reaches 'Main thread
\* finished execution'.
C20_SampleTerminates ==
    /\ [](~BothWaiting)
    /\ <>(/\ bMain = "done"
          /\ \A t \in {1, 2} : bpc[t] = "terminated")

\* Main has printed its last line after the 5 puts and the 5 gets.
C20_Witness ==
    /\ bMain = "done"
    /\ Len(LogOf("put")) = BufferCalls
    /\ Len(LogOf("get")) = BufferCalls
    /\ bWait = {}

\* C21: a thread that has left wait() early in put() or get() (interrupted,
\* woken spuriously, or woken by a notify() meant for the other side) tests
\* the guard again with the monitor held: a thread about to write in put()
\* holds the monitor and finds available false, a thread about to read in
\* get() holds the monitor and finds available true.
C21_GuardHoldsAfterEarlyWake ==
    \A t \in BufThreads :
        /\ bpc[t] = "act" =>
              /\ bLock = t
              /\ bRole[t] = "producer" => ~available
              /\ bRole[t] = "consumer" => available
        /\ bpc[t] = "check" => bLock = t

\* A producer was interrupted in wait() while the value was still unread,
\* tested the guard again and waits again; a consumer woken by the other
\* consumer's notify() found nothing available and waits again.
C21_Witness ==
    /\ bRole = ManyRoles(2)
    /\ bWoke[2] = "interrupt"
    /\ bpc[2] = "waiting"
    /\ bWoke[3] = "notify"
    /\ bpc[3] = "waiting"
    /\ bpc[4] = "terminated"

(***************************************************************************)
(* Claims about accounts, repositories and readers                         *)
(***************************************************************************)
\* C22: the balance of the thread-safe BankAccount, created with a
\* non-negative initial balance, is never below zero while two threads call
\* deposit() and withdraw() with any amounts: a thread between the test
\* amount <= balance and the write of balance - amount holds the monitor and
\* the balance it has read is still the balance of the account.
C22_BalanceNeverNegative ==
    /\ ~DLt(tbBalance, Num(0))
    /\ \A t \in Depositors :
          /\ tbpc[t] \in {"check", "load", "store", "exit"} => tbLock = t
          /\ tbpc[t] = "store" => tbReg[t] = tbBalance
          /\ (tbpc[t] \in {"load", "store"} /\ tbOp[t] = "withdraw") => DLe(tbAmt[t], tbBalance)

\* Two threads withdraw 100 from an account that holds 100: one withdrawal has
\* been made, the other thread's calls have all been refused, the balance is 0.
C22_Witness ==
    /\ tbOp = <<"withdraw", "withdraw">>
    /\ tbAmt = <<Num(100), Num(100)>>
    /\ tbMain = "done"
    /\ tbFinal = Num(0)


\* C23: save() never replaces a different user saved earlier: after any
\* sequence of setId() before saving, save() and delete(), every user that was
\* saved and not deleted is returned by findById() under its own id and is in
\* the list of findAll().
C23_SavedUsersStayFindable ==
    \A u \in urSaved :
        /\ FindById(urId[u]) = u
        /\ \E i \in DOMAIN FindAll : FindAll[i] = u

\* john, given id 1 by setId(), was saved; then jane was saved with id 0, got
\* nextId = 1 and took john's place in the map.
C23_Witness ==
    /\ urLast.op = "save"
    /\ urLast.user = "jane"
    /\ urLast.beforeId = 0
    /\ urLast.id = 1
    /\ MapGet(urLast.before, 1) = "john"
    /\ "john" \in urSaved
    /\ FindById(1) = "jane"
    /\ FindAll = <<"jane">>


\* save() numbers the users that come with id 0: the ids taken from nextId are
\* 1, 2, 3, ... in the order of the calls.
SaveNumbersNewUsers ==
    /\ \A i \in DOMAIN urGen : urGen[i] = i
    /\ nextId = Len(urGen) + 1
    /\ (urLast.op = "save" /\ urLast.beforeId = 0) =>
           /\ urLast.id = urLast.beforeNext
           /\ urId[urLast.user] = urLast.beforeNext

\* After save(u), findById(u.getId()) returns u.
SavedUserIsFound ==
    urLast.op = "save" => FindById(urId[urLast.user]) = urLast.user

\* save() of a user with a non-zero id keeps the id and leaves nextId alone.
SaveKeepsPresetId ==
    (urLast.op = "save" /\ urLast.beforeId # 0) =>
        /\ urId[urLast.user] = urLast.beforeId
        /\ nextId = urLast.beforeNext

\* After delete(u), findById(u.getId()) returns null.
DeletedUserIsGone ==
    urLast.op = "delete" => FindById(urId[urLast.user]) = NullUser

\* delete(u) leaves the users stored under other ids as they were.
DeleteKeepsOtherIds ==
    urLast.op = "delete" =>
        \A id \in DOMAIN urLast.before \ {urLast.id} : FindById(id) = urLast.before[id]

\* delete(u) leaves every user other than u as it was.
DeleteKeepsOtherUsers ==
    urLast.op = "delete" =>
        \A v \in RepoUsers \ {urLast.user} :
            MapGet(urLast.before, urId[v]) = v => FindById(urId[v]) = v

C25_StudentAlwaysValid ==
    /\ stName # Null
    /\ Trim(stName) # <<>>
    /\ stAge > 0
    /\ stAge < 150
    /\ DGe(stGpa, Num(0))
    /\ DLe(stGpa, Num(4))

\* new Student(1, null, -5, 5.0) followed by setAge(200): the name is still
\* null and the age still 0.
C25_Witness ==
    /\ stLast.op = "setAge"
    /\ stLast.arg = 200
    /\ stLast.before.name = Null
    /\ stName = Null
    /\ stAge = 0
    /\ stGpa = Num(0)

\* C26: the balance of the encapsulated BankAccount is >= 0 after construction
\* with any initial balance and after any deposit() and withdraw() calls with
\* any amounts.
C26_BalanceAtLeastZero == DGe(balance, Num(0))

\* deposit(Infinity) returned true, then withdraw(Infinity) returned true and
\* left Infinity - Infinity.
C26_Witness ==
    /\ acLast.op = "withdraw"
    /\ acLast.amount = PosInf
    /\ acLast.ret = TRUE
    /\ acLast.before.balance = PosInf
    /\ balance = NaN


\* The try-with-resources statement of processFile: no path leaves the method
\* with the reader open.
ProcessFileClosesReader ==
    (rfMethod = "processFile" /\ rfPc = "done") => rfReader # "open"

\* C27: the reader that readFile() and processFile() open is closed on every
\* path out of the method, a readLine() that throws IOException included: no
\* call ends with the reader still open.
C27_ReaderClosedOnEveryPath ==
    rfPc = "done" => rfReader # "open"

\* readFile printed one line, the second readLine() threw IOException and the
\* method ended with the reader open.
C27_Witness ==
    /\ rfMethod = "readFile"
    /\ rfPc = "done"
    /\ rfThrown = "IOException"
    /\ rfCalls = 2
    /\ rfFile.lines >= 1
    /\ rfReader = "open"


\* C28: the operations that take money out never increase the balance: for
\* every amount, zero and negative ones included, CreditCard.makePayment(),
\* PayPal.makePayment() and the exercise's withdraw() leave the balance no
\* greater than before, and makePayment() returns false only when the balance
\* is unchanged.
C28_MoneyOutNeverIncreases ==
    /\ pmLast.who # "none" =>
           /\ ~DGt(pmBalance[pmLast.who], pmLast.before)
           /\ (~pmLast.ret => pmBalance[pmLast.who] = pmLast.before)
    /\ xbOps > 0 => ~DGt(xbBalance, xbLast.before)

\* PayPal.makePayment(-50) returned true and raised the balance by 50.
C28_Witness ==
    /\ pmLast.who = "PayPal"
    /\ pmLast.amount = Num(-50)
    /\ pmLast.ret = TRUE
    /\ pmLast.before = Num(1000)
    /\ pmBalance["PayPal"] = Num(1050)

====
